---- MODULE Spec2Model ----
(***************************************************************************)
(* GlymphAgentsManager: the relational store of tools, webhooks, agents    *)
(* and agent/tool associations with the handlers that change it, the tool  *)
(* capability (generic_api_call), the LLM and agent factories, and the     *)
(* /agents/use route.                                                      *)
(*                                                                         *)
(* Tables are sets of rows.  Columns that no handler reads back and no     *)
(* property mentions (description, a webhook's url/api_key/is_active, a    *)
(* tool's api_key) are checked where a NOT NULL constraint applies at      *)
(* insert time but are not kept in the rows.  agent_tools is kept as a     *)
(* multiset (row -> count) so that a duplicate row is representable.       *)
(***************************************************************************)
EXTENDS Integers, Sequences, FiniteSets, TLC

\* ---------------------------------------------------------------- bounds
\* uuid4 ids are modelled as 1, 2, ... in order of issue and never reused.
MaxTools == 2
MaxWebhooks == 2
MaxAgents == 1
\* longest tool_ids list of an associate / unassociate request
MaxIds == 2

ToolIds == 1..MaxTools
WebhookIds == 1..MaxWebhooks
AgentIds == 1..MaxAgents

\* Python None and "key not in the dict / field not in the request"
None == "<None>"
Absent == "<absent>"

ToolNames == {"WeatherTool", "SearchTool"}
AgentNames == {"Bot"}

VARIABLES
    tools,        \* table tools: set of [id, name, is_active]
    webhooks,     \* table webhooks: set of [id, tool_id]
    agents,       \* table agents: set of [id, name]
    agent_tools,  \* table agent_tools: [AgentIds \X ToolIds -> Nat], rows per pair
    uuid,         \* ids issued so far, per table
    last,         \* the last request handled and its response
    sess,         \* concurrent requests: what each has read and not yet committed
    attempt,      \* an agent-construction attempt (factories.py, Agent.py)
    call,         \* a resolved tool capability and the HTTP traffic of its calls
    use_log,      \* the outcomes of POST /agents/use and the responses given
    users,        \* table users: set of [id, username, email, hashed_password,
                  \* is_active, roles]
    revoked_tokens,        \* table revoked_tokens: the jti values stored
    organization_members,  \* table organization_members: rows per (org_id, user_id)
    invites,      \* concurrent invitations: checked and not yet committed
    now           \* the clock tokens expire against

storeVars == <<tools, webhooks, agents, agent_tools, uuid, last>>
\* what the handlers of the store leave alone
pipeline == <<attempt, call, use_log>>
accounts == <<users, revoked_tokens, organization_members, invites, now>>
outside == <<sess, pipeline, accounts>>

\* ------------------------------------------------------------ responses
\* op: the handler; req: the part of its request the properties read;
\* status: the HTTP status (0 for a call that is no HTTP request and raised
\* or returned a plain Python value); detail: the error kind; body: the
\* tool rows a GET returned.
NoBody == {}
RespReq(op, req, status, detail) ==
    [op |-> op, req |-> req, status |-> status, detail |-> detail, body |-> NoBody]
Resp(op, name, status, detail) ==
    RespReq(op, [name |-> name], status, detail)
RespBody(op, status, body) ==
    [op |-> op, req |-> [name |-> None], status |-> status, detail |-> "ok", body |-> body]

\* ------------------------------------------------------ schema constraints
\* mutant: the name column without unique=True
ToolNameUnique_NoConstraint(tls) ==
    TRUE

\* ToolModel.name = Column(String, unique=True, nullable=False)
ToolNameUnique(tls) ==
    \A t1, t2 \in tls : t1.name = t2.name => t1 = t2

\* mutant: agent_tools without the composite primary key
AssocPkOk_NoPrimaryKey(tbl) ==
    TRUE

\* AgentToolAssociation: (agent_id, tool_id) is the composite primary key;
\* a commit that would leave two rows with one key raises IntegrityError.
AssocPkOk(tbl) ==
    \A p \in DOMAIN tbl : tbl[p] <= 1

\* WebhookModel.url / api_key / tool_id = Column(..., nullable=False).
\* Ids are positive; 0 stands for a NULL id.
WebhookNotNullOk(tool_id, url, api_key) ==
    tool_id # 0 /\ url # None /\ api_key # None

ToolById(id) == {t \in tools : t.id = id}
WebhookById(id) == {w \in webhooks : w.id = id}
WebhooksOfTool(tid) == {w \in webhooks : w.tool_id = tid}
AgentById(id) == {a \in agents : a.id = id}
AgentByName(n) == {a \in agents : a.name = n}

StoreInit ==
    /\ tools = {}
    /\ webhooks = {}
    /\ agents = {}
    /\ agent_tools = [p \in AgentIds \X ToolIds |-> 0]
    /\ uuid = [tool |-> 0, webhook |-> 0, agent |-> 0]
    /\ last = Resp("start", None, 200, "ok")

\* ------------------------------------------- ToolManager.create_tool_in_db
\* request: a dict; 'name' and 'config' may be missing.
ToolDictRequests ==
    [name : ToolNames \cup {Absent}, config : {"cfg", Absent}, is_active : BOOLEAN]

ToolReq(request) == [name |-> request.name, config |-> request.config]

\* mutant: the lookup of an existing tool of that name is left out
CreateToolInDb_NoExistingCheck(request, tls, id) ==
    IF request.name = Absent
    THEN [status |-> 400, detail |-> "name required", tools |-> tls, tool_id |-> 0]
    ELSE IF request.config = Absent
    THEN [status |-> 400, detail |-> "config required", tools |-> tls, tool_id |-> 0]
    ELSE LET new_tool == [id |-> id, name |-> request.name, is_active |-> request.is_active]
         IN  IF ToolNameUnique(tls \cup {new_tool})
             THEN [status |-> 200, detail |-> "ok", tools |-> tls \cup {new_tool}, tool_id |-> id]
             ELSE [status |-> 500, detail |-> "IntegrityError", tools |-> tls, tool_id |-> 0]

\* mutant: 'config' is read with a default instead of being required
CreateToolInDb_ConfigOptional(request, tls, id) ==
    IF request.name = Absent
    THEN [status |-> 400, detail |-> "name required", tools |-> tls, tool_id |-> 0]
    ELSE IF \E t \in tls : t.name = request.name
    THEN [status |-> 400, detail |-> "already exists", tools |-> tls, tool_id |-> 0]
    ELSE LET new_tool == [id |-> id, name |-> request.name, is_active |-> request.is_active]
         IN  [status |-> 200, detail |-> "ok", tools |-> tls \cup {new_tool}, tool_id |-> id]

\* The outcome of create_tool_in_db on the table tls: the response and the
\* table after it.  id is the uuid4 the new row would get.
CreateToolInDb(request, tls, id) ==
    IF request.name = Absent
    THEN [status |-> 400, detail |-> "name required", tools |-> tls, tool_id |-> 0]
    ELSE IF request.config = Absent
    THEN [status |-> 400, detail |-> "config required", tools |-> tls, tool_id |-> 0]
    ELSE IF \E t \in tls : t.name = request.name
    THEN [status |-> 400, detail |-> "already exists", tools |-> tls, tool_id |-> 0]
    ELSE LET new_tool == [id |-> id, name |-> request.name, is_active |-> request.is_active]
         IN  IF ToolNameUnique(tls \cup {new_tool})
             THEN [status |-> 200, detail |-> "ok", tools |-> tls \cup {new_tool}, tool_id |-> id]
             ELSE [status |-> 500, detail |-> "IntegrityError", tools |-> tls, tool_id |-> 0]

create_tool_in_db(request) ==
    LET r == CreateToolInDb(request, tools, uuid.tool + 1)
    IN  /\ r.status = 200 => uuid.tool < MaxTools
        /\ tools' = r.tools
        /\ uuid' = IF r.status = 200 THEN [uuid EXCEPT !.tool = @ + 1] ELSE uuid
        /\ last' = RespReq("create_tool_in_db", ToolReq(request), r.status, r.detail)
        /\ UNCHANGED <<outside, webhooks, agents, agent_tools>>

\* ------------------------------------------------------ POST /tools/create
\* ToolCreateRequest: name and config are required fields (422 without
\* them); webhook_url and api_key are Optional and default to None.
ToolCreateRequests ==
    [name : ToolNames \cup {Absent}, config : {"cfg", Absent}, is_active : BOOLEAN,
     webhook_url : {"https://make.com/webhook", None}, api_key : {"auth-key", None}]

create_tool_with_webhook(request) ==
    IF request.name = Absent \/ request.config = Absent
    THEN /\ last' = RespReq("create_tool_with_webhook", ToolReq(request),
                         422, "field required")
         /\ UNCHANGED <<outside, tools, webhooks, agents, agent_tools, uuid>>
    ELSE LET tool_data == [name |-> request.name, config |-> request.config,
                           is_active |-> request.is_active]
             tool_response == CreateToolInDb(tool_data, tools, uuid.tool + 1)
         IN  IF tool_response.status # 200
             THEN \* create_tool_in_db raised: nothing after it runs
                  /\ last' = RespReq("create_tool_with_webhook", ToolReq(request),
                                     tool_response.status, tool_response.detail)
                  /\ UNCHANGED <<outside, tools, webhooks, agents, agent_tools, uuid>>
             ELSE /\ uuid.tool < MaxTools
                  \* the tool row is committed by create_tool_in_db
                  /\ tools' = tool_response.tools
                  /\ IF WebhookNotNullOk(tool_response.tool_id, request.webhook_url,
                                         request.api_key)
                     THEN /\ uuid.webhook < MaxWebhooks
                          /\ webhooks' = webhooks \cup
                                 {[id |-> uuid.webhook + 1, tool_id |-> tool_response.tool_id]}
                          /\ uuid' = [uuid EXCEPT !.tool = @ + 1, !.webhook = @ + 1]
                          /\ last' = RespReq("create_tool_with_webhook", ToolReq(request),
                                             200, "ok")
                     ELSE \* the second commit raises IntegrityError (NOT NULL)
                          /\ webhooks' = webhooks
                          /\ uuid' = [uuid EXCEPT !.tool = @ + 1]
                          /\ last' = RespReq("create_tool_with_webhook", ToolReq(request),
                                             500, "IntegrityError")
                  /\ UNCHANGED <<outside, agents, agent_tools>>

\* --------------------------------------- ToolManager.create_webhook_for_tool
\* request: a dict; request["url"] and request["api_key"] raise KeyError
\* when the key is missing.
WebhookDictRequests == [url : {"https://example.com/webhook", Absent},
                        api_key : {"webhook-api-key", Absent}]

create_webhook_for_tool(tool_id, request) ==
    IF ToolById(tool_id) = {}
    THEN /\ last' = Resp("create_webhook_for_tool", None, 404, "tool not found")
         /\ UNCHANGED <<outside, tools, webhooks, agents, agent_tools, uuid>>
    ELSE IF WebhooksOfTool(tool_id) # {}
    THEN /\ last' = Resp("create_webhook_for_tool", None, 400, "webhook already exists")
         /\ UNCHANGED <<outside, tools, webhooks, agents, agent_tools, uuid>>
    ELSE IF request.url = Absent \/ request.api_key = Absent
    THEN /\ last' = Resp("create_webhook_for_tool", None, 500, "KeyError")
         /\ UNCHANGED <<outside, tools, webhooks, agents, agent_tools, uuid>>
    ELSE /\ uuid.webhook < MaxWebhooks
         /\ webhooks' = webhooks \cup {[id |-> uuid.webhook + 1, tool_id |-> tool_id]}
         /\ uuid' = [uuid EXCEPT !.webhook = @ + 1]
         /\ last' = Resp("create_webhook_for_tool", None, 200, "ok")
         /\ UNCHANGED <<outside, tools, agents, agent_tools>>

\* --------------------------------------------------- POST /webhooks/create
\* The new row carries no tool_id, which is NOT NULL: the commit raises.
create_webhook(request) ==
    /\ IF request.url = Absent \/ request.api_key = Absent
       THEN last' = Resp("create_webhook", None, 422, "field required")
       ELSE IF WebhookNotNullOk(0, request.url, request.api_key)
       THEN FALSE
       ELSE last' = Resp("create_webhook", None, 500, "IntegrityError")
    /\ UNCHANGED <<outside, tools, webhooks, agents, agent_tools, uuid>>

\* ------------------------------ POST /webhooks/link/{webhook_id}/tool/{tool_id}
LinkWebhook(webhook, tool) == [webhook EXCEPT !.tool_id = tool.id]

link_webhook_to_tool(webhook_id, tool_id) ==
    IF WebhookById(webhook_id) = {}
    THEN /\ last' = Resp("link_webhook_to_tool", None, 404, "webhook not found")
         /\ UNCHANGED <<outside, tools, webhooks, agents, agent_tools, uuid>>
    ELSE IF ToolById(tool_id) = {}
    THEN /\ last' = Resp("link_webhook_to_tool", None, 404, "tool not found")
         /\ UNCHANGED <<outside, tools, webhooks, agents, agent_tools, uuid>>
    ELSE \E webhook \in WebhookById(webhook_id), tool \in ToolById(tool_id) :
            /\ webhooks' = (webhooks \ {webhook}) \cup {LinkWebhook(webhook, tool)}
            /\ last' = Resp("link_webhook_to_tool", None, 200, "ok")
            /\ UNCHANGED <<outside, tools, agents, agent_tools, uuid>>

\* ------------------------------------------ PUT /webhooks/update/{webhook_id}
\* WebhookUpdateRequest carries url, api_key, description, is_active only;
\* none of them is a column the rows keep.
update_webhook(webhook_id) ==
    /\ last' = IF WebhookById(webhook_id) = {}
               THEN Resp("update_webhook", None, 404, "webhook not found")
               ELSE Resp("update_webhook", None, 200, "ok")
    /\ UNCHANGED <<outside, tools, webhooks, agents, agent_tools, uuid>>

\* --------------------------------------- DELETE /webhooks/delete/{webhook_id}
delete_webhook(webhook_id) ==
    IF WebhookById(webhook_id) = {}
    THEN /\ last' = Resp("delete_webhook", None, 404, "webhook not found")
         /\ UNCHANGED <<outside, tools, webhooks, agents, agent_tools, uuid>>
    ELSE /\ webhooks' = webhooks \ WebhookById(webhook_id)
         /\ last' = Resp("delete_webhook", None, 200, "ok")
         /\ UNCHANGED <<outside, tools, agents, agent_tools, uuid>>

\* -------------------------------- POST /tools/activate, /tools/deactivate
SetActive(tool, flag) == [tool EXCEPT !.is_active = flag]

activate_tool(tool_id) ==
    IF ToolById(tool_id) = {}
    THEN /\ last' = Resp("activate_tool", None, 404, "tool not found")
         /\ UNCHANGED <<outside, tools, webhooks, agents, agent_tools, uuid>>
    ELSE \E tool \in ToolById(tool_id) :
            /\ tools' = (tools \ {tool}) \cup {SetActive(tool, TRUE)}
            /\ last' = Resp("activate_tool", tool.name, 200, "ok")
            /\ UNCHANGED <<outside, webhooks, agents, agent_tools, uuid>>

deactivate_tool(tool_id) ==
    IF ToolById(tool_id) = {}
    THEN /\ last' = Resp("deactivate_tool", None, 404, "tool not found")
         /\ UNCHANGED <<outside, tools, webhooks, agents, agent_tools, uuid>>
    ELSE \E tool \in ToolById(tool_id) :
            /\ tools' = (tools \ {tool}) \cup {SetActive(tool, FALSE)}
            /\ last' = Resp("deactivate_tool", tool.name, 200, "ok")
            /\ UNCHANGED <<outside, webhooks, agents, agent_tools, uuid>>

\* ------------------------------------------- PUT /tools/update/{tool_id}
\* ToolUpdateRequest: every field Optional; only the fields set in the
\* request (exclude_unset) are written with setattr.
ToolUpdateRequests ==
    [name : ToolNames \cup {Absent}, is_active : {"True", "False", Absent}]

ApplyToolUpdate(tool, request) ==
    [tool EXCEPT !.name = IF request.name = Absent THEN @ ELSE request.name,
                 !.is_active = IF request.is_active = Absent THEN @
                               ELSE request.is_active = "True"]

update_tool_and_webhook(tool_id, request) ==
    IF ToolById(tool_id) = {}
    THEN /\ last' = Resp("update_tool_and_webhook", request.name, 404, "tool not found")
         /\ UNCHANGED <<outside, tools, webhooks, agents, agent_tools, uuid>>
    ELSE \E tool \in ToolById(tool_id) :
            LET updated == (tools \ {tool}) \cup {ApplyToolUpdate(tool, request)}
            IN  IF ToolNameUnique(updated)
                THEN /\ tools' = updated
                     /\ last' = Resp("update_tool_and_webhook", request.name, 200, "ok")
                     /\ UNCHANGED <<outside, webhooks, agents, agent_tools, uuid>>
                ELSE \* db.commit() raises IntegrityError: tools.name is unique
                     /\ last' = Resp("update_tool_and_webhook", request.name,
                                     500, "IntegrityError")
                     /\ UNCHANGED <<outside, tools, webhooks, agents, agent_tools, uuid>>

\* ----------------------------------------------------- POST /agents/create
\* AgentManager.create_agent_in_db: a new row unless the name is taken.
CreateAgentInDb(request, ags, id) ==
    IF \E a \in ags : a.name = request.name
    THEN [status |-> 400, detail |-> "already exists", agents |-> ags]
    ELSE [status |-> 200, detail |-> "ok",
          agents |-> ags \cup {[id |-> id, name |-> request.name]}]

AgentCreateRequests == [name : AgentNames]

\* The route turns every exception of the creation step into a 500.
\* cap: how many agent ids the model hands out.
create_agent_upto(request, cap) ==
    LET r == CreateAgentInDb(request, agents, uuid.agent + 1)
    IN  /\ r.status = 200 => uuid.agent < cap
        /\ agents' = r.agents
        /\ uuid' = IF r.status = 200 THEN [uuid EXCEPT !.agent = @ + 1] ELSE uuid
        /\ last' = Resp("create_agent", request.name,
                        IF r.status = 200 THEN 200 ELSE 500, r.detail)
        /\ UNCHANGED <<outside, tools, webhooks, agent_tools>>

create_agent(request) == create_agent_upto(request, MaxAgents)

\* ------------------------------------------------- AgentConfig (Agent.py)
\* The constructor arguments: name, llm_config (api_key present or not),
\* tools (a list of Tool objects or not) and prompt_template.
AgentConfigArgs ==
    [name : {"Bot", ""}, api_key : {"k", Absent}, tools_ok : BOOLEAN,
     prompt_template : {"You are helpful.", ""},
     fallback_prompt : {"Custom apology.", Absent}]

\* mutant: the prompt template is checked before the tools
AgentConfig_validate_PromptFirst(config) ==
    IF config.name = "" THEN "ValueError: name"
    ELSE IF config.api_key = Absent THEN "ValueError: api_key"
    ELSE IF config.prompt_template = "" THEN "ValueError: prompt_template"
    ELSE IF ~config.tools_ok THEN "ValueError: tools"
    ELSE "ok"

\* AgentConfig._validate: the first failing check raises ValueError
AgentConfig_validate(config) ==
    IF config.name = "" THEN "ValueError: name"
    ELSE IF config.api_key = Absent THEN "ValueError: api_key"
    ELSE IF ~config.tools_ok THEN "ValueError: tools"
    ELSE IF config.prompt_template = "" THEN "ValueError: prompt_template"
    ELSE "ok"

\* AgentConfig.__init__: stores the fields, then validates; no store access
AgentConfig_init(config) ==
    /\ last' = RespReq("AgentConfig", config, 0, AgentConfig_validate(config))
    /\ UNCHANGED <<outside, tools, webhooks, agents, agent_tools, uuid>>

\* ------------------------------------------------ agent / tool association
\* tool_ids: a list, possibly with repeated ids.  The handlers use it only
\* through in_(), len() and set(), so one order per multiset is enough.
ToolIdLists ==
    {l \in UNION {[1..n -> ToolIds] : n \in 0..MaxIds} :
        \A i \in 1..(Len(l) - 1) : l[i] <= l[i + 1]}
Range(s) == {s[i] : i \in DOMAIN s}

\* db.query(ToolModel).filter(ToolModel.id.in_(tool_ids), is_active == True)
ActiveToolsIn(tool_ids) ==
    {t \in tools : t.id \in Range(tool_ids) /\ t.is_active}

\* the rows the loop adds to the session: one per tool not yet associated
AssociatePending(tbl, agent_id, tls) ==
    {<<agent_id, t.id>> : t \in {u \in tls : tbl[<<agent_id, u.id>>] = 0}}

InsertRows(tbl, rows) ==
    [p \in DOMAIN tbl |-> IF p \in rows THEN tbl[p] + 1 ELSE tbl[p]]

DeleteRows(tbl, rows) ==
    [p \in DOMAIN tbl |-> IF p \in rows THEN 0 ELSE tbl[p]]

\* the associations of agent_id whose tool_id is in tool_ids
AssociationsIn(tbl, agent_id, tool_ids) ==
    {p \in DOMAIN tbl : p[1] = agent_id /\ p[2] \in Range(tool_ids) /\ tbl[p] > 0}

\* associate_tools_to_agent up to its commit: an error response, or the
\* rows to insert
AssociateCheck(agent_id, tool_ids) ==
    IF AgentById(agent_id) = {}
    THEN [status |-> 404, detail |-> "agent not found", rows |-> {}]
    ELSE IF Cardinality(ActiveToolsIn(tool_ids)) # Len(tool_ids)
    THEN [status |-> 404, detail |-> "tools not found or inactive", rows |-> {}]
    ELSE [status |-> 200, detail |-> "ok",
          rows |-> AssociatePending(agent_tools, agent_id, ActiveToolsIn(tool_ids))]

\* db.commit() of the inserted rows
CommitInsert(tbl, rows) ==
    IF AssocPkOk(InsertRows(tbl, rows))
    THEN [status |-> 200, detail |-> "ok", table |-> InsertRows(tbl, rows)]
    ELSE [status |-> 500, detail |-> "IntegrityError", table |-> tbl]

\* POST /agents/{agent_id}/tools/associate; req: what is kept of the
\* request in last
associate_tools_logged(agent_id, tool_ids, req) ==
    /\ IF tool_ids = <<>>
       THEN /\ last' = RespReq("associate_tools", req, 400, "no tool ids")
            /\ agent_tools' = agent_tools
       ELSE LET c == AssociateCheck(agent_id, tool_ids)
                r == CommitInsert(agent_tools, c.rows)
            IN  IF c.status # 200
                THEN /\ last' = RespReq("associate_tools", req, c.status, c.detail)
                     /\ agent_tools' = agent_tools
                ELSE /\ last' = RespReq("associate_tools", req, r.status, r.detail)
                     /\ agent_tools' = r.table
    /\ UNCHANGED <<outside, tools, webhooks, agents, uuid>>

associate_tools(agent_id, tool_ids) ==
    associate_tools_logged(agent_id, tool_ids, [name |-> None])

\* mutant: every listed tool must be associated, as in the associate check
UnassociateCheck_AllListed(agent_id, tool_ids) ==
    IF AgentById(agent_id) = {}
    THEN [status |-> 404, detail |-> "agent not found", rows |-> {}]
    ELSE IF Cardinality(AssociationsIn(agent_tools, agent_id, tool_ids)) # Len(tool_ids)
    THEN [status |-> 404, detail |-> "no matching associations", rows |-> {}]
    ELSE [status |-> 200, detail |-> "ok",
          rows |-> AssociationsIn(agent_tools, agent_id, tool_ids)]

UnassociateCheck(agent_id, tool_ids) ==
    IF AgentById(agent_id) = {}
    THEN [status |-> 404, detail |-> "agent not found", rows |-> {}]
    ELSE IF AssociationsIn(agent_tools, agent_id, tool_ids) = {}
    THEN [status |-> 404, detail |-> "no matching associations", rows |-> {}]
    ELSE [status |-> 200, detail |-> "ok",
          rows |-> AssociationsIn(agent_tools, agent_id, tool_ids)]

\* POST /agents/{agent_id}/tools/unassociate
unassociate_tools_logged(agent_id, tool_ids, req) ==
    /\ IF tool_ids = <<>>
       THEN /\ last' = RespReq("unassociate_tools", req, 400, "no tool ids")
            /\ agent_tools' = agent_tools
       ELSE LET c == UnassociateCheck(agent_id, tool_ids)
            IN  /\ last' = RespReq("unassociate_tools", req, c.status, c.detail)
                /\ agent_tools' = DeleteRows(agent_tools, c.rows)
    /\ UNCHANGED <<outside, tools, webhooks, agents, uuid>>

unassociate_tools(agent_id, tool_ids) ==
    unassociate_tools_logged(agent_id, tool_ids, [name |-> None])

\* ------------------------------------------------------- AgentModel.tools
\* [assoc.tool for assoc in self.agent_tool_associations]
AgentModel_tools(agent_id) ==
    {t \in tools : \E p \in DOMAIN agent_tools :
                        p = <<agent_id, t.id>> /\ agent_tools[p] > 0}

\* GET /agents/{agent_id}
get_agent_with_tools(agent_id) ==
    /\ last' = IF AgentById(agent_id) = {}
               THEN Resp("get_agent_with_tools", None, 404, "agent not found")
               ELSE RespBody("get_agent_with_tools", 200, AgentModel_tools(agent_id))
    /\ UNCHANGED <<outside, tools, webhooks, agents, agent_tools, uuid>>

\* GET /agents/name/{agent_name}
get_agent_with_tools_by_name(agent_name) ==
    /\ last' = IF AgentByName(agent_name) = {}
               THEN Resp("get_agent_with_tools_by_name", agent_name, 404, "agent not found")
               ELSE [RespBody("get_agent_with_tools_by_name", 200,
                              UNION {AgentModel_tools(a.id) : a \in AgentByName(agent_name)})
                        EXCEPT !.req = [name |-> agent_name]]
    /\ UNCHANGED <<outside, tools, webhooks, agents, agent_tools, uuid>>

StoreNext ==
    \/ \E request \in ToolDictRequests : create_tool_in_db(request)
    \/ \E request \in ToolCreateRequests : create_tool_with_webhook(request)
    \/ \E tool_id \in ToolIds, request \in WebhookDictRequests :
          create_webhook_for_tool(tool_id, request)
    \/ \E request \in WebhookDictRequests : create_webhook(request)
    \/ \E webhook_id \in WebhookIds, tool_id \in ToolIds :
          link_webhook_to_tool(webhook_id, tool_id)
    \/ \E webhook_id \in WebhookIds : update_webhook(webhook_id)
    \/ \E webhook_id \in WebhookIds : delete_webhook(webhook_id)
    \/ \E tool_id \in ToolIds : activate_tool(tool_id)
    \/ \E tool_id \in ToolIds : deactivate_tool(tool_id)
    \/ \E tool_id \in ToolIds, request \in ToolUpdateRequests :
          update_tool_and_webhook(tool_id, request)
    \/ \E request \in AgentCreateRequests : create_agent(request)
    \/ \E agent_id \in AgentIds, tool_ids \in ToolIdLists :
          associate_tools(agent_id, tool_ids)
    \/ \E agent_id \in AgentIds, tool_ids \in ToolIdLists :
          unassociate_tools(agent_id, tool_ids)
    \/ \E agent_id \in AgentIds : get_agent_with_tools(agent_id)
    \/ \E agent_name \in AgentNames : get_agent_with_tools_by_name(agent_name)
    \/ \E config \in AgentConfigArgs : AgentConfig_init(config)

\* ------------------------------------------------ concurrent requests
\* Two requests in flight.  A request reads (its queries see the committed
\* rows), adds or deletes rows in its own session, and commits.
Sessions == {"r1", "r2"}
Idle == [pc |-> "idle", rows |-> {}]

SessInit == sess = [s \in Sessions |-> Idle]

\* associate_tools_to_agent, lines 10-30: the checks and the rows added
associate_begin(s, agent_id, tool_ids) ==
    /\ sess[s].pc = "idle"
    /\ tool_ids # <<>>
    /\ LET c == AssociateCheck(agent_id, tool_ids)
       IN  IF c.status # 200
           THEN /\ last' = Resp("associate_tools", None, c.status, c.detail)
                /\ sess' = sess
           ELSE /\ sess' = [sess EXCEPT ![s] = [pc |-> "associate", rows |-> c.rows]]
                /\ last' = last
    /\ UNCHANGED <<tools, webhooks, agents, agent_tools, uuid, pipeline, accounts>>

\* associate_tools_to_agent, line 32: db.commit()
associate_commit(s) ==
    /\ sess[s].pc = "associate"
    /\ LET r == CommitInsert(agent_tools, sess[s].rows)
       IN  /\ agent_tools' = r.table
           /\ last' = Resp("associate_tools", None, r.status, r.detail)
    /\ sess' = [sess EXCEPT ![s] = Idle]
    /\ UNCHANGED <<tools, webhooks, agents, uuid, pipeline, accounts>>

\* unassociate_tools_from_agent, lines 36-51: the checks and the rows deleted
unassociate_begin(s, agent_id, tool_ids) ==
    /\ sess[s].pc = "idle"
    /\ tool_ids # <<>>
    /\ LET c == UnassociateCheck(agent_id, tool_ids)
       IN  IF c.status # 200
           THEN /\ last' = Resp("unassociate_tools", None, c.status, c.detail)
                /\ sess' = sess
           ELSE /\ sess' = [sess EXCEPT ![s] = [pc |-> "unassociate", rows |-> c.rows]]
                /\ last' = last
    /\ UNCHANGED <<tools, webhooks, agents, agent_tools, uuid, pipeline, accounts>>

\* unassociate_tools_from_agent, line 53: db.commit()
unassociate_commit(s) ==
    /\ sess[s].pc = "unassociate"
    /\ agent_tools' = DeleteRows(agent_tools, sess[s].rows)
    /\ last' = Resp("unassociate_tools", None, 200, "ok")
    /\ sess' = [sess EXCEPT ![s] = Idle]
    /\ UNCHANGED <<tools, webhooks, agents, uuid, pipeline, accounts>>

ConcNext ==
    \/ \E request \in ToolDictRequests : create_tool_in_db(request)
    \/ \E request \in AgentCreateRequests : create_agent(request)
    \/ \E tool_id \in ToolIds : deactivate_tool(tool_id)
    \/ \E s \in Sessions, agent_id \in AgentIds, tool_ids \in ToolIdLists :
          associate_begin(s, agent_id, tool_ids)
    \/ \E s \in Sessions : associate_commit(s)
    \/ \E s \in Sessions, agent_id \in AgentIds, tool_ids \in ToolIdLists :
          unassociate_begin(s, agent_id, tool_ids)
    \/ \E s \in Sessions : unassociate_commit(s)

\* ======================================================================
\* The factories (factories.py) and the agent wrapper (Agent.py)
\* ======================================================================
\* A Python dict is a function from the keys it holds; d.get(k, default):
Get(d, k, default) == IF k \in DOMAIN d THEN d[k] ELSE default
\* d[k] = v
Put(d, k, v) == [x \in DOMAIN d \cup {k} |-> IF x = k THEN v ELSE d[x]]
Restrict(d, keys) == [k \in keys |-> d[k]]
\* every dict that holds a subset of the keys of full, with full's values
SubDicts(full) == {Restrict(full, keys) : keys \in SUBSET DOMAIN full}

\* an exception leaving a function
Raise(type, what) == [kind |-> "raise", type |-> type, what |-> what]

\* ---------------------------------------------------------- LLMFactory.create
LLMTypes == {"openai", "cohere", "huggingface", "unknown-llm", "OpenAI"}
LLMConfigs == SubDicts([api_key |-> "k", model |-> "gpt-4", repo_id |-> "org/model"])

\* mutant: the credential is read with config.get("api_key")
LLMFactory_create_OptionalApiKey(llm_type, config, lib_ok) ==
    IF llm_type = "openai"
    THEN IF ~lib_ok THEN Raise("LibraryError", "ChatOpenAI")
         ELSE [kind |-> "client", class |-> "ChatOpenAI",
               model |-> Get(config, "model", "gpt-4o"),
               api_key |-> Get(config, "api_key", None)]
    ELSE IF llm_type = "cohere"
    THEN IF ~lib_ok THEN Raise("LibraryError", "Cohere")
         ELSE [kind |-> "client", class |-> "Cohere",
               model |-> Get(config, "model", "command-xlarge-nightly"),
               api_key |-> Get(config, "api_key", None)]
    ELSE IF llm_type = "huggingface"
    THEN IF "repo_id" \notin DOMAIN config THEN Raise("KeyError", "repo_id")
         ELSE IF ~lib_ok THEN Raise("LibraryError", "HuggingFaceHub")
         ELSE [kind |-> "client", class |-> "HuggingFaceHub",
               model |-> config["repo_id"], api_key |-> Get(config, "api_key", None)]
    ELSE Raise("ValueError", "Unsupported LLM type")

\* lib_ok: whether the library's constructor (ChatOpenAI, Cohere,
\* HuggingFaceHub) accepts its arguments.  config["api_key"] and
\* config["repo_id"] raise KeyError when the key is missing; keyword
\* arguments are evaluated in the order written.
LLMFactory_create(llm_type, config, lib_ok) ==
    IF llm_type = "openai"
    THEN IF "api_key" \notin DOMAIN config THEN Raise("KeyError", "api_key")
         ELSE IF ~lib_ok THEN Raise("LibraryError", "ChatOpenAI")
         ELSE [kind |-> "client", class |-> "ChatOpenAI",
               model |-> Get(config, "model", "gpt-4o"), api_key |-> config["api_key"]]
    ELSE IF llm_type = "cohere"
    THEN IF "api_key" \notin DOMAIN config THEN Raise("KeyError", "api_key")
         ELSE IF ~lib_ok THEN Raise("LibraryError", "Cohere")
         ELSE [kind |-> "client", class |-> "Cohere",
               model |-> Get(config, "model", "command-xlarge-nightly"),
               api_key |-> config["api_key"]]
    ELSE IF llm_type = "huggingface"
    THEN IF "repo_id" \notin DOMAIN config THEN Raise("KeyError", "repo_id")
         ELSE IF "api_key" \notin DOMAIN config THEN Raise("KeyError", "api_key")
         ELSE IF ~lib_ok THEN Raise("LibraryError", "HuggingFaceHub")
         ELSE [kind |-> "client", class |-> "HuggingFaceHub",
               model |-> config["repo_id"], api_key |-> config["api_key"]]
    ELSE Raise("ValueError", "Unsupported LLM type")

\* ------------------------------------------------------- tool descriptors
\* The config dicts of the descriptors bound during assembly: with and
\* without endpoint_url.
AsmToolConfigs == SubDicts([endpoint_url |-> <<"https://x/weather">>])
AsmDescriptors ==
    {Restrict(f, keys) :
        f \in [name : ToolNames, description : {"Fetches data"}, config : AsmToolConfigs],
        keys \in {{"name", "config"}, {"name", "config", "description"}}}
MaxBound == 2
DescriptorLists == UNION {[1..n -> AsmDescriptors] : n \in 0..MaxBound}

\* partial(generic_api_call, tool_config=...) wrapped in Tool(...)
BoundTool(tool_config) ==
    [kind |-> "tool",
     name |-> tool_config["name"],
     description |-> Get(tool_config, "description", ""),
     func |-> [target |-> "generic_api_call", tool_config |-> tool_config["config"]],
     return_direct |-> Get(tool_config["config"], "return_direct", FALSE)]

\* mutant: langchain_tools.insert(0, lc_tool) instead of append
BindTools_Prepends(tls) == [i \in DOMAIN tls |-> BoundTool(tls[Len(tls) + 1 - i])]

\* AgentFactory.create_agent, lines 123-133: one Tool per descriptor, in order
BindTools(tls) == [i \in DOMAIN tls |-> BoundTool(tls[i])]

\* ------------------------------------------------ AgentFactory.create_agent
\* ext: which calls into the orchestration library succeed
Ext == [llm : BOOLEAN, prompt : BOOLEAN, bind : BOOLEAN, fallback : BOOLEAN]

FactoryAgentConfigs ==
    [name : {"Bot"}, llm_type : LLMTypes, llm_config : LLMConfigs,
     prompt_template : {"You are helpful."}, fallback_prompt : {"Custom apology."}]

\* the four messages of ChatPromptTemplate.from_messages
FactoryPrompt(template) ==
    <<[role |-> "system", text |-> template],
      [role |-> "placeholder", text |-> "chat_history"],
      [role |-> "human", text |-> "{input}"],
      [role |-> "placeholder", text |-> "agent_scratchpad"]>>

\* try: ... except Exception as e: logger.error(...); raise
AgentFactory_create_agent(config, tls, ext) ==
    LET llm == LLMFactory_create(config.llm_type, config.llm_config, ext.llm)
    IN  IF llm.kind = "raise" THEN llm
        ELSE IF ~ext.prompt THEN Raise("LibraryError", "from_template")
        ELSE IF ~ext.bind THEN Raise("LibraryError", "create_tool_calling_agent")
        ELSE [kind |-> "agent", fallback |-> FALSE, llm |-> llm,
              tools |-> BindTools(tls),
              prompt |-> FactoryPrompt(config.prompt_template)]

\* --------------------------------------------------- Agent.py create_agent
DefaultFallbackPrompt == "I'm sorry, I couldn't process your request. Please try again."

\* the AgentConfig object __init__ leaves: fallback_prompt has a default
AgentConfig(args) ==
    [args EXCEPT !.fallback_prompt = IF @ = Absent THEN DefaultFallbackPrompt ELSE @]

\* create_fallback_agent: OpenAI(...) and create_tool_calling_agent(...)
\* are called outside any try
create_fallback_agent(config, ext) ==
    IF ~ext.fallback THEN Raise("LibraryError", "create_fallback_agent")
    ELSE [kind |-> "agent", fallback |-> TRUE,
          llm |-> [kind |-> "client", class |-> "OpenAI", model |-> "gpt-3.5-turbo",
                   api_key |-> config.api_key],
          tools |-> <<[name |-> "fallback", returns |-> config.fallback_prompt]>>,
          prompt |-> <<[role |-> "system",
                        text |-> "Fallback Agent: A simple response generator."]>>]

\* try: llm, prompt, create_tool_calling_agent; except: fallback
Agent_create_agent(config, ext) ==
    IF ext.llm /\ ext.prompt /\ ext.bind
    THEN [kind |-> "agent", fallback |-> FALSE,
          llm |-> [kind |-> "client", class |-> "OpenAI", model |-> "gpt-4",
                   api_key |-> config.api_key],
          tools |-> <<>>,
          prompt |-> <<[role |-> "system", text |-> config.prompt_template]>>]
    ELSE create_fallback_agent(config, ext)

\* ------------------------------------------------------------- the attempts
\* attempt: the call made, its arguments, which library calls succeeded
\* and what it returned or raised.  Each behaviour makes one call.
NoAttempt == [op |-> "none"]

AsmInit == attempt = NoAttempt

llm_create(llm_type, config, lib_ok) ==
    /\ attempt' = [op |-> "LLMFactory.create", llm_type |-> llm_type, config |-> config,
                   out |-> LLMFactory_create(llm_type, config, lib_ok)]
    /\ UNCHANGED <<storeVars, sess, call, use_log, accounts>>

factory_create_agent(config, tls, ext) ==
    /\ attempt' = [op |-> "AgentFactory.create_agent", config |-> config, tools |-> tls,
                   ext |-> ext, out |-> AgentFactory_create_agent(config, tls, ext)]
    /\ UNCHANGED <<storeVars, sess, call, use_log, accounts>>

\* AgentConfig(...) followed by create_agent(config)
wrapper_create_agent(args, ext) ==
    /\ attempt' =
          IF AgentConfig_validate(args) # "ok"
          THEN [op |-> "create_agent", config |-> args, ext |-> ext,
                out |-> Raise("ValueError", AgentConfig_validate(args))]
          ELSE [op |-> "create_agent", config |-> AgentConfig(args), ext |-> ext,
                out |-> Agent_create_agent(AgentConfig(args), ext)]
    /\ UNCHANGED <<storeVars, sess, call, use_log, accounts>>

\* ------------------------------------------------------ invoking an agent
\* What the language model answers when the agent runs: a final text, or
\* a request to call one of the tools by name.
InputTexts == {"hi", "paris"}
ModelOutputs ==
    {[kind |-> "final", text |-> "Here is a poem."]} \cup
    {[kind |-> "tool_call", tool |-> n] : n \in {"fallback"} \cup ToolNames}

\* The agent built by create_tool_calling_agent(llm, tools, prompt) is run
\* by the model: its result is the model's final text, or what the tool
\* the model asked for returns.  Only the fallback tool is a local function
\* (it returns config.fallback_prompt); a bound tool makes its HTTP call.
InvokeAgent(agent, input_text, model_output) ==
    IF model_output.kind = "final"
    THEN [kind |-> "text", text |-> model_output.text]
    ELSE IF \E i \in DOMAIN agent.tools : agent.tools[i].name = model_output.tool
    THEN LET i == CHOOSE j \in DOMAIN agent.tools : agent.tools[j].name = model_output.tool
         IN  IF "returns" \in DOMAIN agent.tools[i]
             THEN [kind |-> "text", text |-> agent.tools[i].returns]
             ELSE [kind |-> "tool_result", tool |-> model_output.tool, query |-> input_text]
    ELSE [kind |-> "invalid_tool", tool |-> model_output.tool]

invoke_agent(input_text, model_output) ==
    /\ attempt' = attempt @@ [input_text |-> input_text, model_output |-> model_output,
                              result |-> InvokeAgent(attempt.out, input_text, model_output)]
    /\ UNCHANGED <<storeVars, sess, call, use_log, accounts>>

AsmNext ==
    \/ /\ attempt.op \in {"AgentFactory.create_agent", "create_agent"}
       /\ attempt.out.kind = "agent"
       /\ "result" \notin DOMAIN attempt
       /\ \E input_text \in InputTexts, model_output \in ModelOutputs :
             invoke_agent(input_text, model_output)
    \/ /\ attempt.op = "none"
       /\ \E llm_type \in LLMTypes, config \in LLMConfigs, lib_ok \in BOOLEAN :
             llm_create(llm_type, config, lib_ok)
    \/ /\ attempt.op = "none"
       /\ \E config \in FactoryAgentConfigs, tls \in DescriptorLists, ext \in Ext :
             factory_create_agent(config, tls, ext)
    \/ /\ attempt.op = "none"
       /\ \E args \in AgentConfigArgs, ext \in Ext : wrapper_create_agent(args, ext)

\* ======================================================================
\* The tool capability: resolution and generic_api_call
\* ======================================================================
\* A URL is the sequence of its pieces; "{query}" is the placeholder piece.
\* No endpoint_url (None) and the empty string are both falsy: NoUrl.
NoUrl == <<>>
EmptyDict == [k \in {} |-> k]
Queries == {"paris", "rome"}

\* the tool_config dicts: every key may be missing
ToolConfigs ==
    {Restrict(f, keys) :
        f \in [endpoint_url : {<<"https://x/weather">>, <<"https://x/city/", "{query}">>},
               method : {"post"},
               headers : {[Authorization |-> "Bearer K"]},
               params : {EmptyDict, [units |-> "metric"]},
               data : {EmptyDict},
               query_in_params : {FALSE},
               query_in_data : {TRUE},
               input_location : {"params", "headers"},
               input_key : {"q"},
               func : {"other"}],
        keys \in {ks \in SUBSET {"endpoint_url", "method", "headers", "params", "data",
                                "query_in_params", "query_in_data", "input_location",
                                "input_key", "func"} :
                     /\ "headers" \in ks
                     /\ ("input_key" \in ks) = ("input_location" \in ks)}}

CallDescriptors == {[name |-> "WeatherTool", config |-> c] : c \in ToolConfigs}

\* str.upper() on the method names in use
Upper(m) ==
    CASE m = "get" -> "GET"
      [] m = "post" -> "POST"
      [] OTHER -> m

\* url.replace("{query}", query)
Replace(url, query) ==
    [i \in DOMAIN url |-> IF url[i] = "{query}" THEN query ELSE url[i]]

\* requests' Response.ok: no 4xx or 5xx status
ResponseOk(status) == status < 400

\* what the HTTP collaborator does with a request
HttpOutcomes ==
    {[kind |-> "transport_error"]} \cup
    {[kind |-> "response", status |-> st, text |-> "body"] : st \in {200, 304, 404, 500}}

\* mutant: the query of the previous call is kept next to the new one
generic_api_call_KeepsPrevious(query, tool_config, env) ==
    LET url == Get(tool_config, "endpoint_url", NoUrl)
        method == Upper(Get(tool_config, "method", "GET"))
        headers == Get(tool_config, "headers", EmptyDict)
        params0 == Get(tool_config, "params", EmptyDict)
        params == IF Get(tool_config, "query_in_params", TRUE)
                  THEN Put(IF "query" \in DOMAIN params0
                           THEN Put(params0, "previous", params0["query"]) ELSE params0,
                           "query", query)
                  ELSE params0
        data == IF Get(tool_config, "query_in_data", FALSE)
                THEN Put(Get(tool_config, "data", EmptyDict), "query", query)
                ELSE Get(tool_config, "data", EmptyDict)
        cfg1 == IF "params" \in DOMAIN tool_config
                THEN Put(tool_config, "params", params) ELSE tool_config
        cfg2 == IF "data" \in DOMAIN cfg1 THEN Put(cfg1, "data", data) ELSE cfg1
        request == [method |-> method, url |-> Replace(url, query), headers |-> headers,
                    params |-> params, json |-> data]
    IN  IF url = NoUrl
        THEN [out |-> Raise("ValueError", "No endpoint_url"), sent |-> <<>>,
              tool_config |-> tool_config]
        ELSE IF env.kind = "transport_error"
        THEN [out |-> Raise("ConnectionError", "transport"), sent |-> <<request>>,
              tool_config |-> cfg2]
        ELSE IF ~ResponseOk(env.status)
        THEN [out |-> Raise("ValueError", "status"), sent |-> <<request>>,
              tool_config |-> cfg2]
        ELSE [out |-> [kind |-> "text", text |-> env.text, status |-> env.status],
              sent |-> <<request>>, tool_config |-> cfg2]

\* generic_api_call(query, tool_config): the request sent (none when it
\* raises before requests.request), the result, and tool_config after the
\* call.  params and data are the dicts held by tool_config when it has
\* the key (a fresh {} otherwise), and are written in place.
generic_api_call(query, tool_config, env) ==
    LET url == Get(tool_config, "endpoint_url", NoUrl)
        method == Upper(Get(tool_config, "method", "GET"))
        headers == Get(tool_config, "headers", EmptyDict)
        params == IF Get(tool_config, "query_in_params", TRUE)
                  THEN Put(Get(tool_config, "params", EmptyDict), "query", query)
                  ELSE Get(tool_config, "params", EmptyDict)
        data == IF Get(tool_config, "query_in_data", FALSE)
                THEN Put(Get(tool_config, "data", EmptyDict), "query", query)
                ELSE Get(tool_config, "data", EmptyDict)
        cfg1 == IF "params" \in DOMAIN tool_config
                THEN Put(tool_config, "params", params) ELSE tool_config
        cfg2 == IF "data" \in DOMAIN cfg1 THEN Put(cfg1, "data", data) ELSE cfg1
        request == [method |-> method, url |-> Replace(url, query), headers |-> headers,
                    params |-> params, json |-> data]
    IN  IF url = NoUrl
        THEN [out |-> Raise("ValueError", "No endpoint_url"), sent |-> <<>>,
              tool_config |-> tool_config]
        ELSE IF env.kind = "transport_error"
        THEN [out |-> Raise("ConnectionError", "transport"), sent |-> <<request>>,
              tool_config |-> cfg2]
        ELSE IF ~ResponseOk(env.status)
        THEN [out |-> Raise("ValueError", "status"), sent |-> <<request>>,
              tool_config |-> cfg2]
        ELSE [out |-> [kind |-> "text", text |-> env.text, status |-> env.status],
              sent |-> <<request>>, tool_config |-> cfg2]

\* mutant: the endpoint is checked when the tool is created
ToolFactory_create_tool_EagerEndpoint(config) ==
    IF Get(config["config"], "func", "generic_api_call") # "generic_api_call"
    THEN Raise("ValueError", "Error creating tool")
    ELSE IF Get(config["config"], "endpoint_url", NoUrl) = NoUrl
    THEN Raise("ValueError", "No endpoint_url")
    ELSE BoundTool(config)

\* ToolFactory.create_tool: every exception becomes ValueError("Error
\* creating tool: ...")
ToolFactory_create_tool(config) ==
    IF Get(config["config"], "func", "generic_api_call") # "generic_api_call"
    THEN Raise("ValueError", "Error creating tool")
    ELSE BoundTool(config)

\* call: pc (start, resolved, failed), the resolver used, the config dict
\* the capability is bound to, the requests sent so far with the query
\* of each, the last step taken and its outcome
MaxCalls == 3

CallInit ==
    call = [pc |-> "start", resolver |-> None, tool_config |-> EmptyDict,
            http |-> <<>>, step |-> "none", response |-> [kind |-> "none"],
            out |-> [kind |-> "none"]]

Resolved(resolver, descriptor, out) ==
    [pc |-> IF out.kind = "tool" THEN "resolved" ELSE "failed",
     resolver |-> resolver, tool_config |-> descriptor["config"],
     http |-> call.http, step |-> "resolve", response |-> [kind |-> "none"],
     out |-> out]

tool_factory_create(descriptor) ==
    /\ call' = Resolved("ToolFactory.create_tool", descriptor,
                        ToolFactory_create_tool(descriptor))
    /\ UNCHANGED <<storeVars, sess, attempt, use_log, accounts>>

\* the tool-binding loop of AgentFactory.create_agent on one descriptor
factory_bind(descriptor) ==
    /\ call' = Resolved("AgentFactory.create_agent", descriptor,
                        BindTools(<<descriptor>>)[1])
    /\ UNCHANGED <<storeVars, sess, attempt, use_log, accounts>>

\* the agent calls the capability: bound_func(query)
tool_call(query, env) ==
    /\ call.pc = "resolved"
    /\ Len(call.http) < MaxCalls
    /\ LET r == generic_api_call(query, call.tool_config, env)
       IN  call' = [call EXCEPT !.tool_config = r.tool_config,
                                !.http = @ \o [i \in DOMAIN r.sent |->
                                                 [query |-> query, request |-> r.sent[i]]],
                                !.step = "call",
                                !.response = IF r.sent = <<>> THEN [kind |-> "none"] ELSE env,
                                !.out = r.out]
    /\ UNCHANGED <<storeVars, sess, attempt, use_log, accounts>>

CallNext ==
    \/ /\ call.pc = "start"
       /\ \E descriptor \in CallDescriptors : tool_factory_create(descriptor)
    \/ /\ call.pc = "start"
       /\ \E descriptor \in CallDescriptors : factory_bind(descriptor)
    \/ \E query \in Queries, env \in HttpOutcomes : tool_call(query, env)

\* ======================================================================
\* POST /agents/use
\* ======================================================================
\* What AgentManager.use_agent_from_db does as seen by the route: it
\* returns, raises an HTTPException, or raises any other exception.
UseOutcomes ==
    {[kind |-> "return", response |-> r] : r \in {"It is sunny.", "Hello."}} \cup
    {[kind |-> "HTTPException", status |-> 404, detail |-> d] :
        d \in {"Agent 'Bot' not found.", "Agent 'X' not found."}} \cup
    {[kind |-> "Exception", message |-> m] :
        m \in {"boom", "Connection refused", "Incorrect API key provided: sk-secret"}}

\* str(e)
Str(e) == e.message

\* mutant: one handler for every exception, as in POST /agents/create
UseAgentResponse_WrapsAll(outcome) ==
    IF outcome.kind = "return"
    THEN [status |-> 200, body |-> outcome.response]
    ELSE IF outcome.kind = "HTTPException"
    THEN [status |-> 500, body |-> outcome.detail]
    ELSE [status |-> 500, body |-> Str(outcome)]

\* use_agent: HTTPException passes through, anything else becomes a 500
\* with detail=str(e)
UseAgentResponse(outcome) ==
    IF outcome.kind = "return"
    THEN [status |-> 200, body |-> outcome.response]
    ELSE IF outcome.kind = "HTTPException"
    THEN [status |-> outcome.status, body |-> outcome.detail]
    ELSE [status |-> 500, body |-> Str(outcome)]

UseInit == use_log = {}

use_agent(outcome) ==
    /\ use_log' = use_log \cup {[outcome |-> outcome, response |-> UseAgentResponse(outcome)]}
    /\ UNCHANGED <<storeVars, sess, attempt, call, accounts>>

UseNext == \E outcome \in UseOutcomes : use_agent(outcome)

\* ======================================================================
\* Names: create, rename, duplicate, delete and look up by name
\* ======================================================================
MaxNamedAgents == 2
NamedAgents == AgentNames \cup {"Helper"}
LookupNames == NamedAgents \cup {"Ghost"}

\* f"{tool.name}_copy"
CopyName(name) == name \o "_copy"

\* POST /tools/duplicate/{tool_id}.  The new object is a copy.deepcopy of
\* a row loaded in the session, instance state included: copied_ok says
\* whether the session takes it as a new row (INSERT at commit) or
\* rejects it.  tools.name is unique.
duplicate_tool(tool_id, copied_ok) ==
    IF ToolById(tool_id) = {}
    THEN /\ last' = Resp("duplicate_tool", None, 404, "tool not found")
         /\ UNCHANGED <<outside, tools, webhooks, agents, agent_tools, uuid>>
    ELSE \E tool \in ToolById(tool_id) :
            LET duplicated_tool == [tool EXCEPT !.id = uuid.tool + 1,
                                                !.name = CopyName(tool.name)]
            IN  IF ~copied_ok
                THEN /\ last' = Resp("duplicate_tool", tool.name, 500, "InvalidRequestError")
                     /\ UNCHANGED <<outside, tools, webhooks, agents, agent_tools, uuid>>
                ELSE IF ~ToolNameUnique(tools \cup {duplicated_tool})
                THEN /\ last' = Resp("duplicate_tool", tool.name, 500, "IntegrityError")
                     /\ UNCHANGED <<outside, tools, webhooks, agents, agent_tools, uuid>>
                ELSE /\ uuid.tool < MaxTools
                     /\ tools' = tools \cup {duplicated_tool}
                     /\ uuid' = [uuid EXCEPT !.tool = @ + 1]
                     /\ last' = Resp("duplicate_tool", tool.name, 200, "ok")
                     /\ UNCHANGED <<outside, webhooks, agents, agent_tools>>

\* rows of agent_tools that point at a tool / an agent
AssociationsOfTool(tool_id) == {p \in DOMAIN agent_tools : p[2] = tool_id /\ agent_tools[p] > 0}
AssociationsOfAgent(agent_id) == {p \in DOMAIN agent_tools : p[1] = agent_id /\ agent_tools[p] > 0}

\* mutant: the association rows are neither looked at nor deleted
delete_tool_and_webhook_LeavesAssociations(tool_id) ==
    IF ToolById(tool_id) = {}
    THEN /\ last' = Resp("delete_tool_and_webhook", None, 404, "tool not found")
         /\ UNCHANGED <<outside, tools, webhooks, agents, agent_tools, uuid>>
    ELSE /\ tools' = tools \ ToolById(tool_id)
         /\ IF WebhooksOfTool(tool_id) = {}
            THEN webhooks' = webhooks
            ELSE \E webhook \in WebhooksOfTool(tool_id) : webhooks' = webhooks \ {webhook}
         /\ last' = Resp("delete_tool_and_webhook", None, 200, "ok")
         /\ UNCHANGED <<outside, agents, agent_tools, uuid>>

\* DELETE /tools/delete/{tool_id}: the tool and the first webhook found
\* for it.  The association rows of the tool are not deleted: the flush
\* tries to blank their tool_id, a primary-key column, and fails.
delete_tool_and_webhook(tool_id) ==
    IF ToolById(tool_id) = {}
    THEN /\ last' = Resp("delete_tool_and_webhook", None, 404, "tool not found")
         /\ UNCHANGED <<outside, tools, webhooks, agents, agent_tools, uuid>>
    ELSE IF AssociationsOfTool(tool_id) # {}
    THEN /\ last' = Resp("delete_tool_and_webhook", None, 500, "AssertionError")
         /\ UNCHANGED <<outside, tools, webhooks, agents, agent_tools, uuid>>
    ELSE /\ tools' = tools \ ToolById(tool_id)
         /\ IF WebhooksOfTool(tool_id) = {}
            THEN webhooks' = webhooks
            ELSE \E webhook \in WebhooksOfTool(tool_id) : webhooks' = webhooks \ {webhook}
         /\ last' = Resp("delete_tool_and_webhook", None, 200, "ok")
         /\ UNCHANGED <<outside, agents, agent_tools, uuid>>

AgentNameUnique(ags) ==
    \A a1, a2 \in ags : a1.name = a2.name => a1 = a2

\* PUT /agents/update/{name}: every field of the request is written with
\* setattr, the name too; a failing commit is answered with a 500
update_agent(name, request) ==
    IF AgentByName(name) = {}
    THEN /\ last' = Resp("update_agent", name, 404, "agent not found")
         /\ UNCHANGED <<outside, tools, webhooks, agents, agent_tools, uuid>>
    ELSE \E agent \in AgentByName(name) :
            LET updated == (agents \ {agent}) \cup {[agent EXCEPT !.name = request.name]}
            IN  IF AgentNameUnique(updated)
                THEN /\ agents' = updated
                     /\ last' = Resp("update_agent", name, 200, "ok")
                     /\ UNCHANGED <<outside, tools, webhooks, agent_tools, uuid>>
                ELSE /\ last' = Resp("update_agent", name, 500, "IntegrityError")
                     /\ UNCHANGED <<outside, tools, webhooks, agents, agent_tools, uuid>>

\* DELETE /agents/delete/{name}
delete_agent(name) ==
    IF AgentByName(name) = {}
    THEN /\ last' = Resp("delete_agent", name, 404, "agent not found")
         /\ UNCHANGED <<outside, tools, webhooks, agents, agent_tools, uuid>>
    ELSE IF \E agent \in AgentByName(name) : AssociationsOfAgent(agent.id) # {}
    THEN /\ last' = Resp("delete_agent", name, 500, "AssertionError")
         /\ UNCHANGED <<outside, tools, webhooks, agents, agent_tools, uuid>>
    ELSE /\ agents' = agents \ AgentByName(name)
         /\ last' = Resp("delete_agent", name, 200, "ok")
         /\ UNCHANGED <<outside, tools, webhooks, agent_tools, uuid>>

\* AgentManager.use_agent_from_db as the route sees it: an unknown name is
\* a not-found client error; otherwise the agent is built and invoked,
\* which returns or raises.  No row is written.
UseAgentFromDb(name, outcome) ==
    IF AgentByName(name) = {}
    THEN [kind |-> "HTTPException", status |-> 404, detail |-> "Agent not found."]
    ELSE outcome

\* POST /agents/use on the stored agents
use_agent_request(name, outcome) ==
    LET response == UseAgentResponse(UseAgentFromDb(name, outcome))
    IN  /\ last' = Resp("use_agent", name, response.status, response.body)
        /\ UNCHANGED <<outside, tools, webhooks, agents, agent_tools, uuid>>

\* the requests that name a tool: active tools, with or without a webhook
NamedToolCreateRequests ==
    {r \in ToolCreateRequests :
        /\ r.name # Absent /\ r.config # Absent /\ r.is_active
        /\ (r.webhook_url = None) = (r.api_key = None)}
NamedToolUpdateRequests == {r \in ToolUpdateRequests : r.is_active = Absent}
NamedUseOutcomes ==
    {[kind |-> "return", response |-> "Hello."], [kind |-> "Exception", message |-> "boom"]}

\* Agents and tools created, associated, unassociated and deleted
AssocToolRequests ==
    {r \in ToolDictRequests : r.name # Absent /\ r.config # Absent}

AssocNext ==
    \/ \E request \in AssocToolRequests : create_tool_in_db(request)
    \/ \E request \in AgentCreateRequests : create_agent(request)
    \/ \E tool_id \in ToolIds : deactivate_tool(tool_id)
    \/ \E agent_id \in AgentIds, tool_ids \in ToolIdLists :
          associate_tools_logged(agent_id, tool_ids,
                                 [agent_id |-> agent_id, tool_ids |-> tool_ids])
    \/ \E agent_id \in AgentIds, tool_ids \in ToolIdLists :
          unassociate_tools_logged(agent_id, tool_ids,
                                   [agent_id |-> agent_id, tool_ids |-> tool_ids])
    \/ \E tool_id \in ToolIds : delete_tool_and_webhook(tool_id)
    \/ \E name \in AgentNames : delete_agent(name)
    \/ \E agent_id \in AgentIds : get_agent_with_tools(agent_id)

CrudNext ==
    \/ \E request \in NamedToolCreateRequests : create_tool_with_webhook(request)
    \/ \E tool_id \in ToolIds, request \in NamedToolUpdateRequests :
          update_tool_and_webhook(tool_id, request)
    \/ \E tool_id \in ToolIds, copied_ok \in BOOLEAN : duplicate_tool(tool_id, copied_ok)
    \/ \E tool_id \in ToolIds : delete_tool_and_webhook(tool_id)
    \/ \E name \in NamedAgents : create_agent_upto([name |-> name], MaxNamedAgents)
    \/ \E name \in LookupNames, new_name \in NamedAgents :
          update_agent(name, [name |-> new_name])
    \/ \E name \in LookupNames : delete_agent(name)
    \/ \E name \in LookupNames : get_agent_with_tools_by_name(name)
    \/ \E name \in LookupNames, outcome \in NamedUseOutcomes :
          use_agent_request(name, outcome)

\* ------------------------------------------ PUT /tools/update/{tool_id}
\* with the stored row and the request body written out field by field.
\* The config the example of POST /tools/create stores (two of its keys)
\* and the values an update may carry for them.
StoredConfig ==
    [endpoint_url |-> "https://api.weather.com/v3/weather/conditions", method |-> "GET"]
UpdateConfigValues ==
    [endpoint_url |-> "https://api.weather.com/v3/weather/forecast", method |-> "POST"]

\* The row create_tool_with_webhook stores for the example request: the
\* route passes no api_key to create_tool_in_db, so the column is NULL.
StoredTool ==
    [id |-> 1, name |-> "WeatherTool", description |-> "Fetches weather information",
     config |-> StoredConfig, is_active |-> TRUE, api_key |-> None]

UpdateInit ==
    /\ tools = {StoredTool}
    /\ webhooks = {[id |-> 1, tool_id |-> 1]}
    /\ agents = {}
    /\ agent_tools = [p \in AgentIds \X ToolIds |-> 0]
    /\ uuid = [tool |-> 1, webhook |-> 1, agent |-> 0]
    /\ last = Resp("start", None, 200, "ok")

\* request.dict(exclude_unset=True): the fields the body set, and of a
\* config the body set only the keys it set
ToolUpdateBodies ==
    {Restrict(f, keys) :
        f \in [name : {"WeatherToolUpdated"},
               description : {"Updated description for the weather tool"},
               config : SubDicts(UpdateConfigValues),
               is_active : {FALSE},
               webhook_url : {"https://make.com/webhook2"}],
        keys \in SUBSET {"name", "description", "config", "is_active", "webhook_url"}}

\* for key, value in body.items(): if hasattr(tool, key): setattr(tool, key, value)
SetAttrs(tool, body) ==
    [key \in DOMAIN tool |-> IF key \in DOMAIN body THEN body[key] ELSE tool[key]]

\* The handler on such a row.  The webhook's url, api_key, description and
\* is_active are not columns of the modelled webhook rows.
update_tool_and_webhook_body(tool_id, body) ==
    IF ToolById(tool_id) = {}
    THEN /\ last' = RespReq("update_tool_and_webhook", [tool_id |-> tool_id, body |-> body],
                            404, "tool not found")
         /\ UNCHANGED <<outside, tools, webhooks, agents, agent_tools, uuid>>
    ELSE \E tool \in ToolById(tool_id) :
            LET updated == (tools \ {tool}) \cup {SetAttrs(tool, body)}
            IN  IF ToolNameUnique(updated)
                THEN /\ tools' = updated
                     /\ last' = RespReq("update_tool_and_webhook",
                                        [tool_id |-> tool_id, body |-> body], 200, "ok")
                     /\ UNCHANGED <<outside, webhooks, agents, agent_tools, uuid>>
                ELSE /\ last' = RespReq("update_tool_and_webhook",
                                        [tool_id |-> tool_id, body |-> body],
                                        500, "IntegrityError")
                     /\ UNCHANGED <<outside, tools, webhooks, agents, agent_tools, uuid>>

UpdateNext ==
    \/ \E tool_id \in ToolIds, body \in ToolUpdateBodies :
          update_tool_and_webhook_body(tool_id, body)
    \/ \E tool_id \in ToolIds : activate_tool(tool_id)
    \/ \E tool_id \in ToolIds : deactivate_tool(tool_id)

\* ====================================================================
\* Users, tokens, roles and organization membership
MaxUsers == 2
MaxTime == 2
MaxOrgs == 2

UserIds == 1..MaxUsers
Usernames == {"ann", "bob"}
Emails == {"ann@x.io", "bob@x.io"}
\* str(uuid.uuid4()) values
Jtis == {"jti-1", "jti-2"}
OrgIds == 1..MaxOrgs
\* no route creates an organization: the rows are there from the start
Organizations == {1}
InviteSessions == {"i1", "i2"}
NoInvite == [pc |-> "idle", org_id |-> 0, user_id |-> 0]

AccountsInit ==
    /\ users = {}
    /\ revoked_tokens = {}
    /\ organization_members = [p \in OrgIds \X UserIds |-> 0]
    /\ invites = [s \in InviteSessions |-> NoInvite]
    /\ now = 0

\* what the handlers of this section leave alone
elsewhere == <<tools, webhooks, agents, agent_tools, uuid, sess, pipeline>>

\* ------------------------------------------------------------- token.py
TokenTypes == {"access", "refresh", "activation", "password_reset"}

\* jwt.encode of data={"sub": str(user.id)} with exp, type and jti added
create_token(type, sub, jti, exp) ==
    [signed |-> TRUE, sub |-> sub, type |-> type, jti |-> jti, exp |-> exp]
create_access_token(sub, jti, exp) == create_token("access", sub, jti, exp)
create_refresh_token(sub, jti, exp) == create_token("refresh", sub, jti, exp)
create_activation_token(sub, jti, exp) == create_token("activation", sub, jti, exp)
create_password_reset_token(sub, jti, exp) == create_token("password_reset", sub, jti, exp)

\* a string that is not a token signed with SECRET_KEY
Forged == [signed |-> FALSE, sub |-> 0, type |-> "access", jti |-> "", exp |-> 0]

Tokens ==
    {create_token(type, sub, jti, exp) :
        type \in TokenTypes, sub \in UserIds, jti \in Jtis, exp \in 1..MaxTime}
    \cup {Forged}

\* decode_token returns the payload; None for a bad signature
\* (InvalidTokenError) and for exp in the past (ExpiredSignatureError)
Decodes(token) == token.signed /\ now < token.exp

\* ----------------------------------------------------------- crud_user.py
get_user_by_id(user_id) == {u \in users : u.id = user_id}
get_user_by_username(username) == {u \in users : u.username = username}
get_user_by_email(us, email) == {u \in us : u.email = email}

Hash(password) == "hash:" \o password

\* the integer primary key the insert is given
NextUserId == IF users = {} THEN 1
              ELSE (CHOOSE u \in users : \A v \in users : v.id <= u.id).id + 1

UserCreateRequests == [username : Usernames, email : Emails]

User(id, user_in) ==
    [id |-> id, username |-> user_in.username, email |-> user_in.email,
     hashed_password |-> Hash("secret"), is_active |-> TRUE, roles |-> {}]

\* POST /auth/register: create_user raises ValueError for a taken username
\* or email, answered 400
register_user(user_in) ==
    /\ IF get_user_by_username(user_in.username) # {}
       THEN /\ last' = RespReq("register_user", user_in, 400, "Username already taken")
            /\ users' = users
       ELSE IF get_user_by_email(users, user_in.email) # {}
       THEN /\ last' = RespReq("register_user", user_in, 400, "Email already registered")
            /\ users' = users
       ELSE /\ Cardinality(users) < MaxUsers
            /\ users' = users \cup {User(NextUserId, user_in)}
            /\ last' = RespReq("register_user", user_in, 200, "ok")
    /\ UNCHANGED <<elsewhere, revoked_tokens, organization_members, invites, now>>

\* a RoleAssignment(user_id, role_name="admin") row; no route writes one
assign_admin(user_id) ==
    /\ \E user \in get_user_by_id(user_id) :
          /\ "admin" \notin user.roles
          /\ users' = (users \ {user}) \cup {[user EXCEPT !.roles = @ \cup {"admin"}]}
    /\ last' = RespReq("assign_admin", [user_id |-> user_id], 200, "ok")
    /\ UNCHANGED <<elsewhere, revoked_tokens, organization_members, invites, now>>

\* datetime.utcnow() moves on
tick ==
    /\ now < MaxTime
    /\ now' = now + 1
    /\ UNCHANGED <<elsewhere, last, users, revoked_tokens, organization_members, invites>>

\* ---------------------------------------------------------- crud_token.py
is_token_revoked(jti) == jti \in revoked_tokens

\* add_token_to_blacklist: jti is unique, a second insert of it fails at
\* the commit
add_token_to_blacklist(jti) ==
    /\ IF is_token_revoked(jti)
       THEN /\ revoked_tokens' = revoked_tokens
            /\ last' = RespReq("add_token_to_blacklist", [jti |-> jti], 500, "IntegrityError")
       ELSE /\ revoked_tokens' = revoked_tokens \cup {jti}
            /\ last' = RespReq("add_token_to_blacklist", [jti |-> jti], 200, "ok")
    /\ UNCHANGED <<elsewhere, users, organization_members, invites, now>>

\* ----------------------------------------------------------------- deps.py
NoUser == {}

\* mutant: the blacklist is not consulted
GetCurrentUser_NoBlacklist(token) ==
    IF ~Decodes(token)
    THEN [status |-> 401, detail |-> "Invalid or expired token", user |-> NoUser]
    ELSE IF get_user_by_id(token.sub) = {}
    THEN [status |-> 404, detail |-> "User not found", user |-> NoUser]
    ELSE [status |-> 200, detail |-> "ok", user |-> get_user_by_id(token.sub)]

\* get_current_user: user is the set holding the row returned, if any.
\* The payload's type is not read.
GetCurrentUser(token) ==
    IF ~Decodes(token)
    THEN [status |-> 401, detail |-> "Invalid or expired token", user |-> NoUser]
    ELSE IF is_token_revoked(token.jti)
    THEN [status |-> 401, detail |-> "Token has been revoked", user |-> NoUser]
    ELSE IF get_user_by_id(token.sub) = {}
    THEN [status |-> 404, detail |-> "User not found", user |-> NoUser]
    ELSE [status |-> 200, detail |-> "ok", user |-> get_user_by_id(token.sub)]

\* a request to a route that depends on get_current_user and does
\* nothing else
get_current_user(token) ==
    /\ last' = RespReq("get_current_user", [token |-> token],
                       GetCurrentUser(token).status, GetCurrentUser(token).detail)
    /\ UNCHANGED <<elsewhere, accounts>>

\* admin_required: the current user, or 403 without the admin role
AdminRequired(token) ==
    LET current == GetCurrentUser(token)
    IN  IF current.status # 200 THEN current
        ELSE IF \A user \in current.user : "admin" \notin user.roles
        THEN [status |-> 403, detail |-> "Admin access required", user |-> NoUser]
        ELSE current

\* ---------------------------------------------------------- routes/auth.py
\* the checks the three token endpoints share, with the status each gives
\* to a token it does not decode or whose type is not its own
TokenEndpoint(token, type, bad_status, bad_detail) ==
    IF ~Decodes(token) \/ token.type # type
    THEN [status |-> bad_status, detail |-> bad_detail]
    ELSE IF get_user_by_id(token.sub) = {}
    THEN [status |-> 404, detail |-> "User not found"]
    ELSE [status |-> 200, detail |-> "ok"]

\* POST /auth/refresh
refresh_token_endpoint(token) ==
    LET r == TokenEndpoint(token, "refresh", 401, "Invalid refresh token")
    IN  /\ last' = RespReq("refresh_token_endpoint", [token |-> token], r.status, r.detail)
        /\ UNCHANGED <<elsewhere, accounts>>

\* POST /auth/activate
activate_user(token) ==
    LET r == TokenEndpoint(token, "activation", 400, "Invalid or expired activation token.")
    IN  /\ last' = RespReq("activate_user", [token |-> token], r.status, r.detail)
        /\ users' = IF r.status # 200 THEN users
                    ELSE {IF u.id = token.sub THEN [u EXCEPT !.is_active = TRUE] ELSE u :
                             u \in users}
        /\ UNCHANGED <<elsewhere, revoked_tokens, organization_members, invites, now>>

NewPasswords == {"changed"}

\* POST /auth/reset-password
reset_password(token, new_password) ==
    LET r == TokenEndpoint(token, "password_reset", 400,
                           "Invalid or expired password reset token.")
    IN  /\ last' = RespReq("reset_password", [token |-> token], r.status, r.detail)
        /\ users' = IF r.status # 200 THEN users
                    ELSE {IF u.id = token.sub
                          THEN [u EXCEPT !.hashed_password = Hash(new_password)] ELSE u :
                             u \in users}
        /\ UNCHANGED <<elsewhere, revoked_tokens, organization_members, invites, now>>

ResetLinkSent == "If the email exists, a password reset link has been sent."

\* mutant: an unknown email is answered with a 404
PasswordResetResponse_RevealsUnknown(us, email) ==
    IF get_user_by_email(us, email) = {}
    THEN [status |-> 404, detail |-> "User not found"]
    ELSE [status |-> 200, detail |-> ResetLinkSent]

\* request_password_reset on the users table us: the token made for a
\* known email is neither stored nor returned
PasswordResetResponse(us, email) ==
    IF get_user_by_email(us, email) = {}
    THEN [status |-> 200, detail |-> ResetLinkSent]
    ELSE [status |-> 200, detail |-> ResetLinkSent]

\* POST /auth/request-password-reset
request_password_reset(email) ==
    LET r == PasswordResetResponse(users, email)
    IN  /\ last' = RespReq("request_password_reset", [email |-> email], r.status, r.detail)
        /\ UNCHANGED <<elsewhere, accounts>>

\* --------------------------------------------------------- routes/users.py
\* DELETE /users/{user_id}: the parameter db is Depends(admin_required),
\* so for an admin it is the User row admin_required returns, and
\* db.query raises AttributeError before any row is read
delete_user(token, user_id) ==
    LET caller == AdminRequired(token)
    IN  /\ IF caller.status # 200
           THEN last' = RespReq("delete_user", [token |-> token, user_id |-> user_id],
                                caller.status, caller.detail)
           ELSE last' = RespReq("delete_user", [token |-> token, user_id |-> user_id],
                                500, "AttributeError")
        /\ UNCHANGED <<elsewhere, accounts>>

\* ------------------------------------------------- routes/organizations.py
\* POST /organizations/{org_id}/members up to db.add: the three queries
invite_check(s, org_id, user_id) ==
    /\ invites[s].pc = "idle"
    /\ IF org_id \notin Organizations
       THEN /\ last' = RespReq("invite_user_to_organization",
                               [org_id |-> org_id, user_id |-> user_id],
                               404, "Organization not found")
            /\ invites' = invites
       ELSE IF get_user_by_id(user_id) = {}
       THEN /\ last' = RespReq("invite_user_to_organization",
                               [org_id |-> org_id, user_id |-> user_id],
                               404, "User not found")
            /\ invites' = invites
       ELSE IF organization_members[<<org_id, user_id>>] > 0
       THEN /\ last' = RespReq("invite_user_to_organization",
                               [org_id |-> org_id, user_id |-> user_id],
                               400, "User is already a member of the organization")
            /\ invites' = invites
       ELSE /\ invites' = [invites EXCEPT ![s] =
                              [pc |-> "adding", org_id |-> org_id, user_id |-> user_id]]
            /\ last' = last
    /\ UNCHANGED <<elsewhere, users, revoked_tokens, organization_members, now>>

\* db.add(new_member); db.commit(): the table has no unique constraint on
\* (org_id, user_id), the insert always succeeds
invite_commit(s) ==
    /\ invites[s].pc = "adding"
    /\ organization_members' =
          [organization_members EXCEPT ![<<invites[s].org_id, invites[s].user_id>>] = @ + 1]
    /\ invites' = [invites EXCEPT ![s] = NoInvite]
    /\ last' = RespReq("invite_user_to_organization",
                       [org_id |-> invites[s].org_id, user_id |-> invites[s].user_id],
                       200, "ok")
    /\ UNCHANGED <<elsewhere, users, revoked_tokens, now>>

\* DELETE /organizations/{org_id}/members/{user_id}: the first row found
remove_user_from_organization(org_id, user_id) ==
    /\ IF organization_members[<<org_id, user_id>>] = 0
       THEN /\ last' = RespReq("remove_user_from_organization",
                               [org_id |-> org_id, user_id |-> user_id],
                               404, "User is not a member of the organization")
            /\ organization_members' = organization_members
       ELSE /\ organization_members' =
                  [organization_members EXCEPT ![<<org_id, user_id>>] = @ - 1]
            /\ last' = RespReq("remove_user_from_organization",
                               [org_id |-> org_id, user_id |-> user_id], 200, "ok")
    /\ UNCHANGED <<elsewhere, users, revoked_tokens, invites, now>>

OrgNext ==
    \/ \E user_in \in UserCreateRequests : register_user(user_in)
    \/ \E s \in InviteSessions, org_id \in OrgIds, user_id \in UserIds :
          invite_check(s, org_id, user_id)
    \/ \E s \in InviteSessions : invite_commit(s)
    \/ \E org_id \in OrgIds, user_id \in UserIds :
          remove_user_from_organization(org_id, user_id)

\* one account is enough where the tokens are what varies
TokenUserRequests == {r \in UserCreateRequests : r.username = "ann" /\ r.email = "ann@x.io"}

TokenNext ==
    \/ \E user_in \in TokenUserRequests : register_user(user_in)
    \/ tick
    \/ \E jti \in Jtis : add_token_to_blacklist(jti)
    \/ \E token \in Tokens : get_current_user(token)
    \/ \E token \in Tokens : refresh_token_endpoint(token)
    \/ \E token \in Tokens : activate_user(token)
    \/ \E token \in Tokens, new_password \in NewPasswords : reset_password(token, new_password)

UsersNext ==
    \/ \E user_in \in UserCreateRequests : register_user(user_in)
    \/ \E user_id \in UserIds : assign_admin(user_id)
    \/ \E token \in Tokens, user_id \in UserIds : delete_user(token, user_id)
    \/ \E email \in Emails : request_password_reset(email)
    \/ \E token \in Tokens, new_password \in NewPasswords : reset_password(token, new_password)

PipelineInit == AsmInit /\ CallInit /\ UseInit /\ AccountsInit

vars == <<tools, webhooks, agents, agent_tools, uuid, last, sess, attempt, call, use_log,
          users, revoked_tokens, organization_members, invites, now>>

\* The store, one request at a time
Init == StoreInit /\ SessInit /\ PipelineInit
Next == StoreNext
Spec == Init /\ [][Next]_vars

\* The store with two associate / unassociate requests in flight
ConcInit == StoreInit /\ SessInit /\ PipelineInit
SpecConc == ConcInit /\ [][ConcNext]_vars

\* The factories applied to every configuration of the bounded sets
SpecAsm == Init /\ [][AsmNext]_vars

\* A tool descriptor resolved, and the capability called
SpecCall == Init /\ [][CallNext]_vars

\* Requests to POST /agents/use
SpecUse == Init /\ [][UseNext]_vars

\* Rows created, renamed, duplicated, deleted and looked up by name
SpecCrud == Init /\ [][CrudNext]_vars

\* Associations made and removed while agents and tools come and go
SpecAssoc == Init /\ [][AssocNext]_vars

\* A stored tool updated field by field
UpdateStart == UpdateInit /\ SessInit /\ PipelineInit
SpecUpdate == UpdateStart /\ [][UpdateNext]_vars

\* Invitations to an organization, two of them in flight
SpecOrg == Init /\ [][OrgNext]_vars

\* Tokens presented to the endpoints that read them, as time passes
SpecToken == Init /\ [][TokenNext]_vars

\* Users registered, made admin, deleted, and passwords reset
SpecUsers == Init /\ [][UsersNext]_vars

\* ======================================================================
\* Properties of the store (specification Spec)
\* ======================================================================
GetOps == {"get_agent_with_tools", "get_agent_with_tools_by_name"}
CreateToolOps == {"create_tool_in_db", "create_tool_with_webhook"}
TablesUnchanged ==
    /\ tools' = tools
    /\ webhooks' = webhooks
    /\ agents' = agents
    /\ agent_tools' = agent_tools

\* C1: the tool list a GET of an agent returns (AgentModel.tools) holds
\* only tools whose is_active flag is true at that time.
C1_ResolvedToolsActive ==
    (last.op \in GetOps /\ last.status = 200) =>
        \A t \in last.body : t.is_active

\* C3: every tool is referenced by at most one webhook row.
C3_AtMostOneWebhookPerTool ==
    \A t \in tools : Cardinality(WebhooksOfTool(t.id)) <= 1

\* C4: with associate and unassociate requests interleaved, agent_tools
\* never holds two rows with one (agent_id, tool_id); a request that finds
\* every listed tool already associated succeeds and leaves agent_tools as
\* it was.
NoDuplicateAssociation ==
    \A p \in DOMAIN agent_tools : agent_tools[p] <= 1
C4_NoDuplicatePairs ==
    [][/\ NoDuplicateAssociation'
       /\ \A s \in Sessions :
            (sess[s].pc = "associate" /\ sess'[s].pc = "idle" /\ sess[s].rows = {})
            => (last'.status = 200 /\ agent_tools' = agent_tools)]_vars

\* two requests have both read "not associated" and one has committed
C4_Witness ==
    \E s1, s2 \in Sessions :
        /\ s1 # s2
        /\ sess[s1].pc = "idle"
        /\ sess[s2].pc = "associate"
        /\ \E p \in sess[s2].rows : agent_tools[p] = 1

\* C5: a create request (name and config present) whose name is the name
\* of an existing tool is answered 400 "already exists" and leaves the
\* tools and webhooks tables as they were.
C5_DuplicateToolNameRejected ==
    [][(/\ last'.op \in CreateToolOps
        /\ last'.req.name # Absent /\ last'.req.config # Absent
        /\ \E t \in tools : t.name = last'.req.name)
       => (/\ last'.status = 400
           /\ last'.detail = "already exists"
           /\ tools' = tools
           /\ webhooks' = webhooks)]_vars

C5_Witness ==
    /\ last.op = "create_tool_with_webhook"
    /\ last.status = 400
    /\ last.detail = "already exists"
    /\ \E t \in tools : t.name = last.req.name /\ WebhooksOfTool(t.id) # {}

\* C6: a create request that lacks a required field fails with a
\* validation error and adds no row: a tool dict without 'name' or
\* 'config' (400 from create_tool_in_db, 422 from the route's schema), an
\* AgentConfig with an empty name, no api_key or an empty prompt_template
\* (ValueError).
ValidationErrors ==
    {"ValueError: name", "ValueError: api_key", "ValueError: tools",
     "ValueError: prompt_template"}
C6_MissingFieldRejected ==
    [][/\ (/\ last'.op = "create_tool_in_db"
           /\ (last'.req.name = Absent \/ last'.req.config = Absent))
          => (/\ last'.status = 400
              /\ last'.detail \in {"name required", "config required"}
              /\ TablesUnchanged)
       /\ (/\ last'.op = "create_tool_with_webhook"
           /\ (last'.req.name = Absent \/ last'.req.config = Absent))
          => (last'.status = 422 /\ TablesUnchanged)
       /\ (/\ last'.op = "AgentConfig"
           /\ (\/ last'.req.name = ""
               \/ last'.req.api_key = Absent
               \/ last'.req.prompt_template = ""))
          => (last'.detail \in ValidationErrors /\ TablesUnchanged)]_vars

C6_Witness ==
    /\ last.op = "create_tool_in_db"
    /\ last.req.name # Absent /\ last.req.config = Absent
    /\ last.status = 400
    /\ tools # {}

\* ----------------------------------------------------------------------
\* C2: agent assembly never hands a construction error to its caller.
\* Whenever the LLM client, the prompt or the tool binding raises (an
\* unsupported provider tag included) the assembler returns a fallback
\* agent whose answer is the configured fallback message.
StepRaised ==
    \/ ~(attempt.ext.llm /\ attempt.ext.prompt /\ attempt.ext.bind)
    \/ /\ attempt.op = "AgentFactory.create_agent"
       /\ LLMFactory_create(attempt.config.llm_type, attempt.config.llm_config,
                            attempt.ext.llm).kind = "raise"

C2_AssemblyNeverRaises ==
    (\/ attempt.op = "AgentFactory.create_agent"
     \/ attempt.op = "create_agent" /\ AgentConfig_validate(attempt.config) = "ok")
    => /\ attempt.out.kind = "agent"
       /\ StepRaised =>
             /\ attempt.out.fallback
             /\ \A i \in DOMAIN attempt.out.tools :
                   attempt.out.tools[i].returns = attempt.config.fallback_prompt

\* ----------------------------------------------------------------------
\* C7: LLMFactory.create returns a client only for the tags openai,
\* cohere and huggingface; any other tag raises the unsupported-type
\* ValueError whatever the config holds; a supported tag whose config has
\* no api_key raises KeyError, an exception of another type.
SupportedLLMTypes == {"openai", "cohere", "huggingface"}

C7_LLMFactoryErrors ==
    attempt.op = "LLMFactory.create" =>
       /\ attempt.out.kind = "client" => attempt.llm_type \in SupportedLLMTypes
       /\ attempt.llm_type \notin SupportedLLMTypes =>
             attempt.out = Raise("ValueError", "Unsupported LLM type")
       /\ (attempt.llm_type \in SupportedLLMTypes /\ "api_key" \notin DOMAIN attempt.config) =>
             /\ attempt.out.kind = "raise"
             /\ attempt.out.type = "KeyError"
             /\ attempt.out.type # Raise("ValueError", "Unsupported LLM type").type

C7_Witness ==
    /\ attempt.op = "LLMFactory.create"
    /\ attempt.llm_type = "cohere"
    /\ DOMAIN attempt.config = {"model"}
    /\ attempt.out = Raise("KeyError", "api_key")

\* ----------------------------------------------------------------------
\* C8: a call of a resolved capability with text t carries t at the place
\* the descriptor names (input_location: params, data, headers or path;
\* key input_key) and nowhere else in the request.
Occurrences(request, t) ==
    {<<"params", k>> : k \in {x \in DOMAIN request.params : request.params[x] = t}}
    \cup {<<"data", k>> : k \in {x \in DOMAIN request.json : request.json[x] = t}}
    \cup {<<"headers", k>> : k \in {x \in DOMAIN request.headers : request.headers[x] = t}}
    \cup (IF \E i \in DOMAIN request.url : request.url[i] = t THEN {<<"path", "">>} ELSE {})

C8_QueryAtInputLocation ==
    \A i \in DOMAIN call.http :
       LET loc == Get(call.tool_config, "input_location", "params")
           key == Get(call.tool_config, "input_key", "query")
       IN  Occurrences(call.http[i].request, call.http[i].query)
              = {<<loc, IF loc = "path" THEN "" ELSE key>>}

\* ----------------------------------------------------------------------
\* C9 as stated: resolving a descriptor that has a name and a config
\* always succeeds and sends no HTTP request.
C9_ResolutionAlwaysSucceeds ==
    call.step = "resolve" => (call.out.kind = "tool" /\ call.http = <<>>)

\* C9: resolving a descriptor that has a name and a config sends no HTTP
\* request and never looks at endpoint_url.  The binding loop of
\* AgentFactory.create_agent always succeeds; ToolFactory.create_tool
\* succeeds exactly when config.func is missing or "generic_api_call" and
\* otherwise raises its creation error.  The missing-endpoint, transport
\* and status failures are raised only by a call of the capability.
CallTimeFailures == {"No endpoint_url", "transport", "status"}

C9_ResolutionSendsNothing ==
    /\ call.step = "resolve" =>
          /\ call.http = <<>>
          /\ call.resolver = "AgentFactory.create_agent" => call.out.kind = "tool"
          /\ call.resolver = "ToolFactory.create_tool" =>
                (call.out.kind = "tool"
                    <=> Get(call.tool_config, "func", "generic_api_call") = "generic_api_call")
          /\ call.out.kind # "tool" => call.out = Raise("ValueError", "Error creating tool")
    /\ (call.out.kind = "raise" /\ call.out.what \in CallTimeFailures) => call.step = "call"

C9_Witness ==
    /\ call.resolver = "ToolFactory.create_tool"
    /\ "endpoint_url" \notin DOMAIN call.tool_config
    /\ call.step = "call"
    /\ call.http = <<>>
    /\ call.out = Raise("ValueError", "No endpoint_url")

\* ----------------------------------------------------------------------
\* C10: when the agent fails with an exception that is not an
\* HTTPException, the response of POST /agents/use does not depend on the
\* exception's message: any two such failures get the same response.
C10_InternalMessageNotInResponse ==
    \A e1, e2 \in use_log :
       (e1.outcome.kind = "Exception" /\ e2.outcome.kind = "Exception")
          => e1.response = e2.response

\* ----------------------------------------------------------------------
\* C11: for every input text, invoking the fallback agent gives the
\* fallback message of the configuration (the default apology when none
\* was given), whatever the input and whatever the model answers.
C11_FallbackReturnsMessage ==
    (/\ attempt.op = "create_agent"
     /\ "result" \in DOMAIN attempt
     /\ attempt.out.fallback)
    => attempt.result = [kind |-> "text", text |-> attempt.config.fallback_prompt]

\* ----------------------------------------------------------------------
\* C12: two calls of the same resolved tool with the same input send the
\* same request (method, URL, headers, query parameters, JSON body), also
\* with a call of another input between them.
C12_SameInputSameRequest ==
    \A i, j \in DOMAIN call.http :
       call.http[i].query = call.http[j].query => call.http[i].request = call.http[j].request

C12_Witness ==
    /\ Len(call.http) = 3
    /\ call.http[1].query = "paris"
    /\ call.http[2].query = "rome"
    /\ call.http[3].query = "paris"
    /\ "params" \in DOMAIN call.tool_config
    /\ "query" \in DOMAIN call.tool_config["params"]
    /\ Len(call.http[1].request.url) = 2

\* ----------------------------------------------------------------------
\* C13: a tool call whose response status is outside 200..299 fails, and
\* the response body is the tool's result only for a 2xx status.
C13_Non2xxFails ==
    (call.step = "call" /\ call.response.kind = "response")
    => IF call.response.status \in 200..299
       THEN call.out.kind = "text" /\ call.out.text = call.response.text
       ELSE call.out.kind = "raise"

\* ----------------------------------------------------------------------
\* C18: a call of the capability leaves the descriptor it was built from
\* as it was: params, data and headers hold the same keys and values
\* after the call as before.
C18_CallLeavesDescriptor ==
    [][(call.pc = "resolved" /\ call'.step = "call")
          => call'.tool_config = call.tool_config]_vars

\* ----------------------------------------------------------------------
\* C14: using or looking up an agent by a name that has no agent row is
\* answered 404, never 5xx, and no stored row changes.
C14_UnknownNameNotFound ==
    [][(/\ last'.op \in {"use_agent", "get_agent_with_tools_by_name"}
        /\ AgentByName(last'.req.name) = {})
          => (last'.status = 404 /\ TablesUnchanged)]_vars

C14_Witness ==
    /\ last.op = "use_agent"
    /\ last.req.name = "Ghost"
    /\ last.status = 404
    /\ agents # {}

\* ----------------------------------------------------------------------
\* C15: when the creation step rejects an agent with a client HTTP error
\* (here: the name is taken), POST /agents/create answers with that
\* error's own status, not a 500.
C15_ClientErrorKept ==
    (last.op = "create_agent" /\ last.detail = "already exists") => last.status = 400

\* ----------------------------------------------------------------------
\* C16: no two tool rows and no two agent rows share a name, whatever
\* creates, renames, duplicates and deletes were made; an operation
\* rejected because the name exists leaves the tables as they were.
DuplicateNameRejected ==
    \/ last'.detail = "already exists"
    \/ /\ last'.op \in {"update_tool_and_webhook", "duplicate_tool", "update_agent"}
       /\ last'.detail = "IntegrityError"

NoSharedName(rows) ==
    \A r1, r2 \in rows : r1.id # r2.id => r1.name # r2.name

C16_NamesUnique ==
    [][/\ NoSharedName(tools')
       /\ NoSharedName(agents')
       /\ DuplicateNameRejected => (last'.status >= 400 /\ TablesUnchanged)]_vars

C16_Witness ==
    /\ last.op = "duplicate_tool"
    /\ last.detail = "IntegrityError"
    /\ \E t1, t2 \in tools : t2.name = CopyName(t1.name)

\* ----------------------------------------------------------------------
\* C17: an attempt to construct an agent (AgentConfig(...), then
\* create_agent) ends Invalid, Assembled or Degraded: a configuration that
\* fails validation gets the validation error and is never assembled, and
\* one that passed validation ends with an agent, assembled or fallback.
C17_ThreeTerminalStates ==
    attempt.op = "create_agent" =>
       IF AgentConfig_validate(attempt.config) = "ok"
       THEN attempt.out.kind = "agent"
       ELSE attempt.out.kind = "raise" /\ attempt.out.type = "ValueError"

\* ----------------------------------------------------------------------
\* C19 as stated: validation reports one error, that of the first failing
\* check in the order name, credential, prompt template, tools.
FailingChecks(config) ==
    [name |-> config.name = "", api_key |-> config.api_key = Absent,
     prompt_template |-> config.prompt_template = "", tools |-> ~config.tools_ok]

FirstError(config, order) ==
    LET failing == {i \in DOMAIN order : FailingChecks(config)[order[i]]}
    IN  IF failing = {} THEN "ok"
        ELSE "ValueError: " \o order[CHOOSE i \in failing : \A j \in failing : i <= j]

ReportsFirstOf(order) ==
    (attempt.op = "create_agent" /\ FirstError(attempt.config, order) # "ok")
    => attempt.out = Raise("ValueError", FirstError(attempt.config, order))

C19_FailFastPromptBeforeTools ==
    ReportsFirstOf(<<"name", "api_key", "prompt_template", "tools">>)

\* C19: validation reports one error, that of the first failing check in
\* the order name, credential, tools, prompt template.
C19_FailFastToolsBeforePrompt ==
    ReportsFirstOf(<<"name", "api_key", "tools", "prompt_template">>)

C19_Witness ==
    /\ attempt.op = "create_agent"
    /\ attempt.config.name = "Bot"
    /\ attempt.config.api_key = "k"
    /\ attempt.config.prompt_template = ""
    /\ ~attempt.config.tools_ok
    /\ attempt.out = Raise("ValueError", "ValueError: tools")

\* ----------------------------------------------------------------------
\* C20: AgentFactory.create_agent binds one tool per descriptor, in the
\* order given and under the descriptor's name; with no descriptor the
\* agent has no tool.
C20_OneToolPerDescriptor ==
    (attempt.op = "AgentFactory.create_agent" /\ attempt.out.kind = "agent")
    => /\ Len(attempt.out.tools) = Len(attempt.tools)
       /\ \A i \in DOMAIN attempt.tools :
             /\ attempt.out.tools[i].name = attempt.tools[i]["name"]
             /\ attempt.out.tools[i].func.tool_config = attempt.tools[i]["config"]

C20_Witness ==
    /\ attempt.op = "AgentFactory.create_agent"
    /\ attempt.out.kind = "agent"
    /\ Len(attempt.tools) = 2
    /\ attempt.tools[1]["name"] # attempt.tools[2]["name"]
    /\ "result" \in DOMAIN attempt

\* ----------------------------------------------------------------------
\* the request of an associate / unassociate response that kept it
ListedRequest(op, resp) ==
    /\ resp.op = op
    /\ "tool_ids" \in DOMAIN resp.req
    /\ resp.req.tool_ids # <<>>

\* every id of the list names a tool row that exists and is active
EveryListedToolActive(tool_ids) ==
    \A i \in DOMAIN tool_ids :
        \E t \in tools : t.id = tool_ids[i] /\ t.is_active

\* C22: associating a non-empty list of tools succeeds if and only if the
\* agent exists and every listed id names an existing active tool, and then
\* every listed tool is associated with the agent; otherwise the answer is
\* a 404 and the association table is unchanged.
C22_AssociateAllOrNothing ==
    [][ListedRequest("associate_tools", last')
       => LET agent_id == last'.req.agent_id
              tool_ids == last'.req.tool_ids
              ok == AgentById(agent_id) # {} /\ EveryListedToolActive(tool_ids)
          IN  /\ (last'.status = 200) <=> ok
              /\ last'.status = 200
                    => \A i \in DOMAIN tool_ids : agent_tools'[<<agent_id, tool_ids[i]>>] > 0
              /\ last'.status # 200
                    => last'.status = 404 /\ agent_tools' = agent_tools]_vars

\* ----------------------------------------------------------------------
\* C23: every association row refers to an agent row and a tool row that
\* both exist, whatever was created, associated, unassociated and deleted:
\* the tools resolved for an agent are stored tools and no association
\* outlives its agent.
C23_NoDanglingAssociation ==
    /\ \A p \in DOMAIN agent_tools :
          agent_tools[p] > 0 => AgentById(p[1]) # {} /\ ToolById(p[2]) # {}
    /\ \A a \in agents : \A p \in AssociationsOfAgent(a.id) :
          \E t \in tools : t.id = p[2]

\* a tool or an agent that still has an association was asked to be
\* deleted, and the association is still there
C23_Witness ==
    /\ last.op \in {"delete_tool_and_webhook", "delete_agent"}
    /\ last.status = 500
    /\ \E p \in DOMAIN agent_tools : agent_tools[p] > 0

\* ----------------------------------------------------------------------
\* C30: unassociating a non-empty list removes exactly the associations of
\* the agent with a listed tool and leaves every other association as it
\* was; the answer is a 404 with nothing changed only when the agent does
\* not exist or no listed tool is associated with it.
C30_UnassociateRemovesExactlyListed ==
    [][ListedRequest("unassociate_tools", last')
       => LET agent_id == last'.req.agent_id
              tool_ids == last'.req.tool_ids
              hit == /\ AgentById(agent_id) # {}
                     /\ \E i \in DOMAIN tool_ids : agent_tools[<<agent_id, tool_ids[i]>>] > 0
          IN  /\ tools' = tools /\ agents' = agents /\ webhooks' = webhooks
              /\ IF hit
                 THEN /\ last'.status = 200
                      /\ \A q \in DOMAIN agent_tools :
                            agent_tools'[q] =
                               IF q[1] = agent_id /\ q[2] \in Range(tool_ids)
                               THEN 0 ELSE agent_tools[q]
                 ELSE /\ last'.status = 404
                      /\ agent_tools' = agent_tools]_vars

\* tools 1 and 2 were listed, tool 2 was never created, the request
\* succeeded
C30_Witness ==
    /\ ListedRequest("unassociate_tools", last)
    /\ last.status = 200
    /\ last.req.tool_ids = <<1, 2>>
    /\ uuid.tool = 1
    /\ agent_tools[<<last.req.agent_id, 1>>] = 0

\* ----------------------------------------------------------------------
\* C24: POST /tools/create adds a tool row and a webhook row together or
\* not at all: a successful answer leaves exactly one new tool and exactly
\* one new webhook owned by it, a failed one leaves both tables as they
\* were.
C24_CreateToolAtomic ==
    [][last'.op = "create_tool_with_webhook"
       => IF last'.status = 200
          THEN /\ tools \subseteq tools'
               /\ webhooks \subseteq webhooks'
               /\ Cardinality(tools' \ tools) = 1
               /\ Cardinality(webhooks' \ webhooks) = 1
               /\ \A t \in tools' \ tools : \A w \in webhooks' \ webhooks :
                     w.tool_id = t.id
          ELSE tools' = tools /\ webhooks' = webhooks]_vars

\* ----------------------------------------------------------------------
\* C21: an accepted update changes only what the body carries: a config
\* with some keys changes those keys of the stored config and keeps every
\* other stored key (endpoint_url, say) at its value, and a top-level
\* field absent from the body is unchanged.
C21_PartialUpdate ==
    [][(last'.op = "update_tool_and_webhook" /\ "body" \in DOMAIN last'.req
            /\ last'.status = 200)
       => LET body == last'.req.body
          IN  \A tool \in ToolById(last'.req.tool_id) :
                \E after \in tools' :
                   /\ after.id = tool.id
                   /\ \A key \in DOMAIN tool \ {"config"} :
                         key \notin DOMAIN body => after[key] = tool[key]
                   /\ "config" \notin DOMAIN body => after.config = tool.config
                   /\ "config" \in DOMAIN body
                         => \A key \in DOMAIN tool.config :
                               /\ key \in DOMAIN after.config
                               /\ after.config[key] =
                                     IF key \in DOMAIN body.config
                                     THEN body.config[key] ELSE tool.config[key]]_vars

\* ----------------------------------------------------------------------
\* C25: whatever invitations and removals were handled, two invitations
\* of the same user to the same organization in flight together included,
\* the membership table holds at most one row per (org_id, user_id).
C25_OneMembershipRowPerPair ==
    \A p \in DOMAIN organization_members : organization_members[p] <= 1

\* ----------------------------------------------------------------------
\* C26: a request is authenticated only by a token of type access (a
\* refresh, activation or password_reset token is answered 401), and the
\* refresh, activate and reset-password endpoints each accept only a token
\* of their own type.
C26_OnlyOwnTokenType ==
    /\ (last.op = "get_current_user" /\ last.req.token.type # "access")
          => last.status = 401
    /\ (last.op = "refresh_token_endpoint" /\ last.req.token.type # "refresh")
          => last.status = 401
    /\ (last.op = "activate_user" /\ last.req.token.type # "activation")
          => last.status = 400
    /\ (last.op = "reset_password" /\ last.req.token.type # "password_reset")
          => last.status = 400

\* ----------------------------------------------------------------------
\* the step handles a request that carries a token whose jti is on the
\* blacklist (a step of the clock leaves the last response in place)
RevokedPresented ==
    /\ now' = now
    /\ last'.op = "get_current_user"
    /\ last'.req.token.signed
    /\ last'.req.token.jti \in revoked_tokens

\* C27 as stated: every request that carries a blacklisted token is
\* answered 401 'Token has been revoked', and the blacklist only grows.
C27_RevokedReportedRevoked ==
    [][/\ revoked_tokens \subseteq revoked_tokens'
       /\ RevokedPresented
             => last'.status = 401 /\ last'.detail = "Token has been revoked"]_vars

\* C27: every request that carries a blacklisted token is answered 401,
\* 'Token has been revoked' while the token has not expired and 'Invalid
\* or expired token' once it has; the blacklist only grows, so a revoked
\* token is never accepted again.
C27_RevokedNeverAccepted ==
    [][/\ revoked_tokens \subseteq revoked_tokens'
       /\ RevokedPresented
             => /\ last'.status = 401
                /\ last'.detail = IF now < last'.req.token.exp
                                  THEN "Token has been revoked"
                                  ELSE "Invalid or expired token"]_vars

\* an unexpired access token of a registered user, blacklisted, presented
C27_Witness ==
    /\ last.op = "get_current_user"
    /\ last.req.token.signed
    /\ last.req.token.jti \in revoked_tokens
    /\ last.req.token.type = "access"
    /\ now < last.req.token.exp
    /\ get_user_by_id(last.req.token.sub) # {}
    /\ last.status = 401

\* ----------------------------------------------------------------------
\* C28: DELETE /users/{user_id} by an authenticated caller without the
\* admin role fails with 403 and leaves the users table unchanged; by an
\* admin caller and for an existing user_id it removes the row and
\* succeeds.
C28_DeleteUserAdminOnly ==
    [][last'.op = "delete_user"
       => LET current == GetCurrentUser(last'.req.token)
              target == get_user_by_id(last'.req.user_id)
              admin == \E user \in current.user : "admin" \in user.roles
          IN  /\ (current.status = 200 /\ ~admin)
                    => last'.status = 403 /\ users' = users
              /\ (current.status = 200 /\ admin /\ target # {})
                    => last'.status = 200 /\ users' = users \ target]_vars

\* ----------------------------------------------------------------------
\* the users table with and without a user of that email
WithoutEmail(email) == users \ get_user_by_email(users, email)
WithEmail(email) ==
    IF get_user_by_email(users, email) # {} THEN users
    ELSE users \cup {User(NextUserId, [username |-> "someone", email |-> email])}

====
